---- MODULE Spec2Model ----
(***************************************************************************)
(* Exam attempt lifecycle and auto-grading engine                          *)
(* (AttemptService, AttemptController, ExamService) over the relational    *)
(* store declared in db/schema.ts.                                         *)
(*                                                                         *)
(* Every request handler is an async function; each `await db...` is a     *)
(* suspension point at which other requests may run.  A request is a       *)
(* record in `reqs` with a program counter `pc`; one action models the     *)
(* code between two suspension points.  Consecutive reads of rows that no  *)
(* concurrently running handler of the model writes are taken in one step. *)
(*                                                                         *)
(* Nullable columns / optional arguments are options: Null is <<>> and     *)
(* Some(v) is <<v>>.                                                       *)
(***************************************************************************)
EXTENDS Integers, Sequences, FiniteSets, TLC

VARIABLES exams, questions, questionOptions, examQuestions,
          examAttempts, userAnswers, reqs, nreqs, graded,
          clients, rooms

vars == <<exams, questions, questionOptions, examQuestions,
          examAttempts, userAnswers, reqs, nreqs, graded, clients, rooms>>

\* the two maps of the WebSocket manager
wsVars == <<clients, rooms>>

dbVars == <<exams, questions, questionOptions, examQuestions,
            examAttempts, userAnswers>>

(***************************************************************************)
(* Bounds                                                                  *)
(***************************************************************************)
\* requests issued in one behaviour with overlapping requests
MaxReqs == 4
\* requests being served at the same time
MaxInFlight == 2
\* requests issued in one behaviour when requests run one after the other
MaxSeqReqs == 5
\* exam_attempts rows created in one behaviour
MaxAttempts == 2
\* length of a submitted selectedOptionIds array
MaxSelLen == 3
\* requests of a candidate who starts, answers and submits attempts
MaxLimitReqs == 6

(***************************************************************************)
(* Universe                                                                *)
(***************************************************************************)
Users == {1, 2}
ExamIds == {1, 2}
QuestionIds == {1, 2}
OptionIds == {1, 2, 3}
PointValues == {1, 2}

Null == <<>>
Some(v) == <<v>>
Val(o) == o[1]

QuestionTypes == {"multiple_choice", "true_false", "essay", "fill_blank", "multiple_answer"}

Range(s) == {s[i] : i \in DOMAIN s}

RECURSIVE SumOver(_, _)
\* sum of f(x) over the finite set S
SumOver(S, f) ==
  IF S = {} THEN 0
  ELSE LET x == CHOOSE y \in S : TRUE IN f[x] + SumOver(S \ {x}, f)

(***************************************************************************)
(* Array.prototype.sort() without a comparator: elements are compared as   *)
(* strings (decimal digits, code-unit order).                              *)
(***************************************************************************)
RECURSIVE Digits(_)
Digits(n) == IF n < 10 THEN <<n>> ELSE Digits(n \div 10) \o <<n % 10>>

RECURSIVE LexLess(_, _)
LexLess(s, t) ==
  IF t = <<>> THEN FALSE
  ELSE IF s = <<>> THEN TRUE
  ELSE IF Head(s) # Head(t) THEN Head(s) < Head(t)
  ELSE LexLess(Tail(s), Tail(t))

RECURSIVE InsertSorted(_, _)
InsertSorted(x, s) ==
  IF s = <<>> THEN <<x>>
  ELSE IF LexLess(Digits(x), Digits(Head(s))) THEN <<x>> \o s
  ELSE <<Head(s)>> \o InsertSorted(x, Tail(s))

RECURSIVE JsSort(_)
JsSort(s) == IF s = <<>> THEN <<>> ELSE InsertSorted(Head(s), JsSort(Tail(s)))

RECURSIVE SetToSeq(_)
\* the rows of a SELECT without ORDER BY, in some order
SetToSeq(S) ==
  IF S = {} THEN <<>>
  ELSE LET x == CHOOSE y \in S : TRUE IN <<x>> \o SetToSeq(S \ {x})

(***************************************************************************)
(* Auto-grader                                                             *)
(***************************************************************************)
\* the correct-option query without its is_correct filter
correctOptions_AllOptions(questionId) ==
  {o \in questionOptions : o.questionId = questionId}

\* rows of question_options with question_id = questionId and is_correct
correctOptions(questionId) ==
  {o \in questionOptions : o.questionId = questionId /\ o.isCorrect}

\* candidates for `select from exam_questions where question_id = ? limit 1`:
\* any binding of the question (no ORDER BY), or no row at all
examQuestionLimit1(questionId) ==
  LET rows == {eq \in examQuestions : eq.questionId = questionId}
  IN IF rows = {} THEN {Null} ELSE {Some(eq) : eq \in rows}

\* `examQuestion?.points || 1`
pointsOf(examQuestion) ==
  IF examQuestion = Null \/ Val(examQuestion).points = 0 THEN 1
  ELSE Val(examQuestion).points

multipleAnswerIsCorrect(questionId, selectedOptionIds) ==
  LET correctIds == JsSort(SetToSeq({o.id : o \in correctOptions(questionId)}))
      selectedIds == JsSort(selectedOptionIds)
  IN /\ Len(correctIds) = Len(selectedIds)
     /\ \A i \in DOMAIN correctIds : correctIds[i] = selectedIds[i]

\* an answer left to a human grader but recorded as wrong
manualGrade_Incorrect ==
  [isCorrect |-> Some(FALSE), pointsAwarded |-> 0, needsManualGrading |-> TRUE]

\* lines 331-338: the result for an essay or fill_blank question
manualGrade ==
  [isCorrect |-> Null, pointsAwarded |-> 0, needsManualGrading |-> TRUE]

\* examQuestion is the row the un-ordered `limit 1` query returned
autoGradeAnswer(questionType, questionId, selectedOptionId, selectedOptionIds, textAnswer, examQuestion) ==
  IF questionType \in {"essay", "fill_blank"}
  THEN manualGrade
  ELSE LET points == pointsOf(examQuestion) IN
    IF questionType \in {"multiple_choice", "true_false"}
    THEN IF selectedOptionId = Null \/ Val(selectedOptionId) = 0
         THEN [isCorrect |-> Some(FALSE), pointsAwarded |-> 0, needsManualGrading |-> FALSE]
         ELSE LET isCorrect == \E opt \in correctOptions(questionId) :
                                  opt.id = Val(selectedOptionId)
              IN [isCorrect |-> Some(isCorrect),
                  pointsAwarded |-> IF isCorrect THEN points ELSE 0,
                  needsManualGrading |-> FALSE]
    ELSE IF questionType = "multiple_answer"
    THEN IF selectedOptionIds = Null \/ Len(Val(selectedOptionIds)) = 0
         THEN [isCorrect |-> Some(FALSE), pointsAwarded |-> 0, needsManualGrading |-> FALSE]
         ELSE LET isCorrect == multipleAnswerIsCorrect(questionId, Val(selectedOptionIds))
              IN [isCorrect |-> Some(isCorrect),
                  pointsAwarded |-> IF isCorrect THEN points ELSE 0,
                  needsManualGrading |-> FALSE]
    ELSE [isCorrect |-> Null, pointsAwarded |-> 0, needsManualGrading |-> TRUE]

(***************************************************************************)
(* WebSocketManager: `clients` maps the id of each open connection to its  *)
(* record (roomId, undefined = Null), `rooms` maps a room id to the set of *)
(* its members.  A method is an operator from the manager's two maps to    *)
(* the maps it leaves.                                                     *)
(***************************************************************************)
ClientIds == {"c1", "c2", "c3"}
RoomIds == {"r1", "r2"}

NoClients == [c \in {} |-> [roomId |-> Null]]
NoRooms == [r \in {} |-> {}]

\* Map.set and Map.delete
MapSet(m, k, v) == [x \in DOMAIN m \cup {k} |-> IF x = k THEN v ELSE m[x]]
MapDelete(m, k) == [x \in DOMAIN m \ {k} |-> m[x]]

\* addClient (lines 16-19)
addClient(m, clientId) ==
  [m EXCEPT !.clients = MapSet(@, clientId, [roomId |-> Null])]

\* leaveRoom (lines 73-87): the member is taken out of the room named, the
\* client's roomId is cleared whichever room was named
leaveRoom(m, clientId, roomId) ==
  LET left == IF roomId \in DOMAIN m.rooms
              THEN LET room == m.rooms[roomId] \ {clientId}
                   IN IF room = {} THEN MapDelete(m.rooms, roomId)
                      ELSE [m.rooms EXCEPT ![roomId] = room]
              ELSE m.rooms
  IN [clients |-> IF clientId \in DOMAIN m.clients
                  THEN [m.clients EXCEPT ![clientId].roomId = Null]
                  ELSE m.clients,
      rooms |-> left]

\* removeClient (lines 24-33)
removeClient(m, clientId) ==
  LET m1 == IF clientId \in DOMAIN m.clients /\ m.clients[clientId].roomId # Null
            THEN leaveRoom(m, clientId, Val(m.clients[clientId].roomId))
            ELSE m
  IN [m1 EXCEPT !.clients = MapDelete(@, clientId)]

\* joinRoom (lines 49-68)
joinRoom(m, clientId, roomId) ==
  IF clientId \notin DOMAIN m.clients THEN m
  ELSE LET m1 == IF m.clients[clientId].roomId # Null
                 THEN leaveRoom(m, clientId, Val(m.clients[clientId].roomId))
                 ELSE m
           created == IF roomId \in DOMAIN m1.rooms THEN m1.rooms
                      ELSE MapSet(m1.rooms, roomId, {})
       IN [clients |-> [m1.clients EXCEPT ![clientId].roomId = Some(roomId)],
           rooms |-> [created EXCEPT ![roomId] = @ \cup {clientId}]]

wsManager == [clients |-> clients, rooms |-> rooms]

wsFrame == UNCHANGED <<dbVars, reqs, nreqs, graded>>

\* a room still lists the client id
Listed(clientId) == \E r \in DOMAIN rooms : clientId \in rooms[r]

\* index.ts onOpen: a connection gets a fresh random id
onOpen ==
  /\ \E clientId \in ClientIds :
       /\ clientId \notin DOMAIN clients /\ ~Listed(clientId)
       /\ clients' = addClient(wsManager, clientId).clients
       /\ rooms' = addClient(wsManager, clientId).rooms
  /\ wsFrame

\* index.ts onMessage, case 'join-room'
onMessage_joinRoom ==
  /\ \E clientId \in DOMAIN clients, roomId \in RoomIds :
       /\ clients' = joinRoom(wsManager, clientId, roomId).clients
       /\ rooms' = joinRoom(wsManager, clientId, roomId).rooms
  /\ wsFrame

\* index.ts onMessage, case 'leave-room': the room id is the message's
onMessage_leaveRoom ==
  /\ \E clientId \in DOMAIN clients, roomId \in RoomIds :
       /\ clients' = leaveRoom(wsManager, clientId, roomId).clients
       /\ rooms' = leaveRoom(wsManager, clientId, roomId).rooms
  /\ wsFrame

\* index.ts onClose
onClose ==
  /\ \E clientId \in DOMAIN clients :
       /\ clients' = removeClient(wsManager, clientId).clients
       /\ rooms' = removeClient(wsManager, clientId).rooms
  /\ wsFrame

(***************************************************************************)
(* Store set up through the administration API (createExam,               *)
(* createQuestion, addQuestionsToExam, publishExam): two published exams,  *)
(* a multiple-choice question (options 1 and 2, option 1 correct) and an   *)
(* essay question.  Exam 1 allows one attempt and has the multiple-choice  *)
(* question bound; exam 2 is unlimited and has no question bound.          *)
(***************************************************************************)
Exam(isPublished, attemptsAllowed, passingScore, duration, totalPoints, showAnswersAfter) ==
  [isPublished |-> isPublished, deletedAt |-> Null, attemptsAllowed |-> attemptsAllowed,
   passingScore |-> passingScore, duration |-> duration, totalPoints |-> totalPoints,
   totalQuestions |-> IF totalPoints = 0 THEN 0 ELSE 1,
   showAnswersAfter |-> showAnswersAfter]

\* a questions row as createQuestion inserts it: created by user 1, status
\* at its default 'draft'
Question(questionType, points) ==
  [questionType |-> questionType, points |-> points,
   createdBy |-> 1, status |-> "draft",
   usageCount |-> 0, totalAnswerCount |-> 0, correctAnswerCount |-> 0]

Option(id, questionId, isCorrect) ==
  [id |-> id, questionId |-> questionId, isCorrect |-> isCorrect]

ExamQuestion(examId, questionId, points) ==
  [examId |-> examId, questionId |-> questionId, points |-> points]

NoPayload == [selectedOptionId |-> Null, selectedOptionIds |-> Null, textAnswer |-> Null]

NotGraded ==
  [done |-> FALSE, questionType |-> "essay", questionId |-> 1, payload |-> NoPayload,
   examQuestion |-> Null,
   out |-> [isCorrect |-> Null, pointsAwarded |-> 0, needsManualGrading |-> TRUE]]

\* the exams rows: createExam with the settings given, then the totals of
\* addQuestionsToExam and the flag of publishExam
createdExams ==
  [e \in ExamIds |->
     IF e = 1 THEN Exam(TRUE, Some(1), 70, Some(30), 1, "after_submit")
     ELSE Exam(TRUE, Null, 50, Null, 0, "never")]

InitDb ==
  /\ exams = createdExams
  /\ questions = [q \in QuestionIds |->
                    IF q = 1 THEN Question("multiple_choice", 1)
                    ELSE Question("essay", 1)]
  /\ questionOptions = {Option(1, 1, TRUE), Option(2, 1, FALSE)}
  /\ examQuestions = {ExamQuestion(1, 1, 1)}
  /\ examAttempts = <<>>
  /\ userAnswers = <<>>

Init ==
  /\ InitDb
  /\ reqs = <<>>
  /\ nreqs = 0
  /\ graded = NotGraded
  /\ clients = NoClients
  /\ rooms = NoRooms

(***************************************************************************)
(* Auto-grader in isolation: the store holds one question of any type with *)
(* any option set validateQuestionOptions accepts, bound to exam 1 and     *)
(* possibly to exam 2 with its own point value.                            *)
(***************************************************************************)
\* option sets QuestionService.validateQuestionOptions accepts
validOptions(type, ids, correct) ==
  IF type \in {"essay", "fill_blank"} THEN ids = {}
  ELSE IF type = "true_false" THEN Cardinality(ids) = 2 /\ Cardinality(correct) = 1
  ELSE IF type = "multiple_choice" THEN Cardinality(ids) >= 2 /\ Cardinality(correct) = 1
  ELSE Cardinality(ids) >= 2 /\ Cardinality(correct) >= 1

SeqsUpTo(S, n) == UNION {[1..k -> S] : k \in 0..n}

\* request bodies submitAnswerSchema accepts, as passed on to the service
singleChoicePayloads(ids) ==
  {[selectedOptionId |-> Some(i), selectedOptionIds |-> Null, textAnswer |-> Null] : i \in ids}
multipleAnswerPayloads(lists) ==
  {[selectedOptionId |-> Null, selectedOptionIds |-> Some(l), textAnswer |-> Null] :
     l \in {x \in lists : Len(x) >= 1}}
textPayloads ==
  {[selectedOptionId |-> Null, selectedOptionIds |-> Null, textAnswer |-> Some("text")]}

GradePayloads ==
  singleChoicePayloads(OptionIds \cup {0}) \cup
  multipleAnswerPayloads(SeqsUpTo(OptionIds, MaxSelLen)) \cup textPayloads

InitGrade ==
  /\ \E type \in QuestionTypes, ids \in SUBSET OptionIds :
       \E correct \in SUBSET ids :
         /\ validOptions(type, ids, correct)
         /\ questions = [q \in QuestionIds |->
                           IF q = 1 THEN Question(type, 1) ELSE Question("essay", 1)]
         /\ questionOptions = {Option(i, 1, i \in correct) : i \in ids}
  /\ \E p1 \in PointValues, b2 \in SUBSET PointValues :
       /\ Cardinality(b2) <= 1
       /\ examQuestions = {ExamQuestion(1, 1, p1)} \cup {ExamQuestion(2, 1, p) : p \in b2}
  /\ exams = [e \in ExamIds |-> Exam(TRUE, Null, 70, Null, 1, "after_submit")]
  /\ examAttempts = <<>>
  /\ userAnswers = <<>>
  /\ reqs = <<>>
  /\ nreqs = 0
  /\ graded = NotGraded
  /\ clients = NoClients
  /\ rooms = NoRooms

\* one call of autoGradeAnswer for question 1, as submitAnswer makes it
GradeAnswer ==
  /\ \E payload \in GradePayloads, examQuestion \in examQuestionLimit1(1) :
       graded' = [done |-> TRUE, questionType |-> questions[1].questionType,
                  questionId |-> 1, payload |-> payload, examQuestion |-> examQuestion,
                  out |-> autoGradeAnswer(questions[1].questionType, 1,
                                          payload.selectedOptionId,
                                          payload.selectedOptionIds,
                                          payload.textAnswer, examQuestion)]
  /\ UNCHANGED <<dbVars, reqs, nreqs, wsVars>>

NextGrade == GradeAnswer

SpecGrade == InitGrade /\ [][NextGrade]_vars

(***************************************************************************)
(* Requests                                                                *)
(***************************************************************************)
\* answers a client submits in the request-level model
AnswerPayloads == singleChoicePayloads({1, 2}) \cup textPayloads

NewReq(kind, userId, examId, attemptId, questionId, payload, pc) ==
  [kind |-> kind, pc |-> pc, userId |-> userId, examId |-> examId,
   attemptId |-> attemptId, questionId |-> questionId, payload |-> payload,
   examData |-> Null, attempt |-> Null, gradeResult |-> Null,
   existingAnswer |-> Null, scoreResult |-> Null,
   result |-> "", ret |-> Null,
   \* what the client could observe in the store when it sent the request
   attemptsBefore |-> Len(examAttempts),
   answersBefore |-> userAnswers,
   questionsBefore |-> questions]

InFlight == {i \in DOMAIN reqs : reqs[i].pc # "done"}

\* a request returns (ret) or throws / answers with an error (result)
Finish(r, result, ret) ==
  [r EXCEPT !.pc = "done", !.result = result, !.ret = ret,
            !.examData = Null, !.attempt = Null, !.gradeResult = Null,
            !.scoreResult = Null]

\* responses already sent are forgotten when the next request arrives
Arrive(r) ==
  /\ reqs' = SelectSeq(reqs, LAMBDA x : x.pc # "done") \o <<r>>
  /\ nreqs' = nreqs + 1

Step(i, r) ==
  /\ reqs' = [reqs EXCEPT ![i] = r]
  /\ UNCHANGED nreqs

At(i, kind, pc) == i \in DOMAIN reqs /\ reqs[i].kind = kind /\ reqs[i].pc = pc

\* `select from exam_attempts where id = ? limit 1`
attemptRow(id) == IF id \in DOMAIN examAttempts THEN Some(examAttempts[id]) ELSE Null

(***************************************************************************)
(* AttemptService.startAttempt                                             *)
(***************************************************************************)
StartsInFlight == {i \in InFlight : reqs[i].kind = "startAttempt"}

BeginStartAttempt(users, examIds) ==
  /\ Len(examAttempts) + Cardinality(StartsInFlight) < MaxAttempts
  /\ \E userId \in users, examId \in examIds :
       Arrive(NewReq("startAttempt", userId, examId, 0, 0, NoPayload, "exam"))
  /\ UNCHANGED <<dbVars, graded, wsVars>>

\* the publication check made before the row is known to be there
startAttempt_exam_PublishedFirst(i) ==
  /\ At(i, "startAttempt", "exam")
  /\ LET r == reqs[i]
         exam == exams[r.examId]
     IN IF r.examId \in DOMAIN exams /\ ~exam.isPublished
        THEN Step(i, Finish(r, "Exam is not published yet", Null))
        ELSE IF r.examId \notin DOMAIN exams \/ exam.deletedAt # Null
        THEN Step(i, Finish(r, "Exam not found", Null))
        ELSE Step(i, [r EXCEPT !.pc = "countQuestions", !.examData = Some(exam)])
  /\ UNCHANGED <<dbVars, graded, wsVars>>

\* lines 41-57: load the exam, reject a missing, deleted or unpublished one
startAttempt_exam(i) ==
  /\ At(i, "startAttempt", "exam")
  /\ LET r == reqs[i]
         exam == exams[r.examId]
     IN IF r.examId \notin DOMAIN exams \/ exam.deletedAt # Null
        THEN Step(i, Finish(r, "Exam not found", Null))
        ELSE IF ~exam.isPublished
        THEN Step(i, Finish(r, "Exam is not published yet", Null))
        ELSE Step(i, [r EXCEPT !.pc = "countQuestions", !.examData = Some(exam)])
  /\ UNCHANGED <<dbVars, graded, wsVars>>

\* lines 59-67: count the exam's bindings
startAttempt_countQuestions(i) ==
  /\ At(i, "startAttempt", "countQuestions")
  /\ LET r == reqs[i]
         questionCount == Cardinality({eq \in examQuestions : eq.examId = r.examId})
     IN IF questionCount = 0
        THEN Step(i, Finish(r, "Exam has no questions", Null))
        ELSE IF Val(r.examData).attemptsAllowed # Null
        THEN Step(i, [r EXCEPT !.pc = "countAttempts"])
        ELSE Step(i, [r EXCEPT !.pc = "insert"])
  /\ UNCHANGED <<dbVars, graded, wsVars>>

\* the limit check off by one
limitReached_Strict(attemptCount, attemptsAllowed) == attemptCount > attemptsAllowed

\* the comparison of line 82
limitReached(attemptCount, attemptsAllowed) == attemptCount >= attemptsAllowed

\* lines 69-85: count the user's completed attempts on the exam
startAttempt_countAttempts(i) ==
  /\ At(i, "startAttempt", "countAttempts")
  /\ LET r == reqs[i]
         attemptCount == Cardinality({a \in DOMAIN examAttempts :
                            /\ examAttempts[a].examId = r.examId
                            /\ examAttempts[a].userId = r.userId
                            /\ examAttempts[a].status = "completed"})
     IN IF limitReached(attemptCount, Val(Val(r.examData).attemptsAllowed))
        THEN Step(i, Finish(r, "Maximum attempts reached for this exam", Null))
        ELSE Step(i, [r EXCEPT !.pc = "insert"])
  /\ UNCHANGED <<dbVars, graded, wsVars>>

\* the row startAttempt inserts (lines 90-99) with the column defaults of
\* schema.ts; timestamps other than completedAt/submittedAt are left out
newAttempt(examId, userId, examData) ==
  [examId |-> examId, userId |-> userId, status |-> "in_progress",
   completedAt |-> Null, submittedAt |-> Null, score |-> Null,
   totalPoints |-> 0, maxPoints |-> examData.totalPoints,
   correctAnswers |-> 0, incorrectAnswers |-> 0, unansweredQuestions |-> 0,
   isPassed |-> Null, currentQuestionIndex |-> 0,
   timeRemaining |-> IF examData.duration # Null /\ Val(examData.duration) # 0
                     THEN Some(Val(examData.duration) * 60) ELSE Null]

\* a start that closes the user's attempts still open on the exam
startAttempt_insert_SupersedeOpen(i) ==
  /\ At(i, "startAttempt", "insert")
  /\ LET r == reqs[i]
         closed == [a \in DOMAIN examAttempts |->
                      IF /\ examAttempts[a].userId = r.userId
                         /\ examAttempts[a].examId = r.examId
                         /\ examAttempts[a].status = "in_progress"
                      THEN [examAttempts[a] EXCEPT !.status = "abandoned"]
                      ELSE examAttempts[a]]
     IN /\ examAttempts' = Append(closed, newAttempt(r.examId, r.userId, Val(r.examData)))
        /\ Step(i, [r EXCEPT !.pc = "questions", !.attemptId = Len(examAttempts) + 1])
  /\ UNCHANGED <<exams, questions, questionOptions, examQuestions, userAnswers, graded, wsVars>>

\* lines 87-100: insert the attempt
startAttempt_insert(i) ==
  /\ At(i, "startAttempt", "insert")
  /\ LET r == reqs[i]
     IN /\ examAttempts' = Append(examAttempts, newAttempt(r.examId, r.userId, Val(r.examData)))
        /\ Step(i, [r EXCEPT !.pc = "questions", !.attemptId = Len(examAttempts) + 1])
  /\ UNCHANGED <<exams, questions, questionOptions, examQuestions, userAnswers, graded, wsVars>>

\* lines 102-110: getExamQuestionsForAttempt and the response
startAttempt_questions(i) ==
  /\ At(i, "startAttempt", "questions")
  /\ LET r == reqs[i]
         list == {eq \in examQuestions : eq.examId = r.examId}
     IN Step(i, Finish(r, "ok", Some([attempt |-> r.attemptId,
                                      totalQuestions |-> Cardinality(list)])))
  /\ UNCHANGED <<dbVars, graded, wsVars>>

(***************************************************************************)
(* Controller prologue shared by submitAnswer, submitExam, abandonAttempt: *)
(* getAttemptById, then the ownership check (controller lines 184-195,     *)
(* 258-269, 367-378).                                                      *)
(***************************************************************************)
ownershipError(r) ==
  LET attempt == attemptRow(r.attemptId)
  IN IF attempt = Null THEN "Attempt not found"
     ELSE IF Val(attempt).userId # r.userId THEN "Forbidden"
     ELSE ""

BeginOnAttempt(kind, users) ==
  \E userId \in users, attemptId \in DOMAIN examAttempts :
    Arrive(NewReq(kind, userId, examAttempts[attemptId].examId, attemptId, 0, NoPayload, "ctl"))

(***************************************************************************)
(* AttemptController.submitAnswer / AttemptService.submitAnswer            *)
(***************************************************************************)
BeginSubmitAnswer(users, questionIds, payloads) ==
  /\ \E userId \in users, attemptId \in DOMAIN examAttempts,
        questionId \in questionIds, payload \in payloads :
       Arrive(NewReq("submitAnswer", userId, examAttempts[attemptId].examId,
                     attemptId, questionId, payload, "ctl"))
  /\ UNCHANGED <<dbVars, graded, wsVars>>

\* a request that names an attempt id no row has
BeginSubmitAnswerMissing(users, questionIds, payloads) ==
  /\ \E userId \in users, questionId \in questionIds, payload \in payloads :
       Arrive(NewReq("submitAnswer", userId, 0, Len(examAttempts) + 1,
                     questionId, payload, "ctl"))
  /\ UNCHANGED <<dbVars, graded, wsVars>>

\* controller lines 184-198
submitAnswer_ctl(i) ==
  /\ At(i, "submitAnswer", "ctl")
  /\ LET r == reqs[i]
     IN IF ownershipError(r) # ""
        THEN Step(i, Finish(r, ownershipError(r), Null))
        ELSE Step(i, [r EXCEPT !.pc = "attempt"])
  /\ UNCHANGED <<dbVars, graded, wsVars>>

\* service lines 219-232: the status check
submitAnswer_attempt(i) ==
  /\ At(i, "submitAnswer", "attempt")
  /\ LET r == reqs[i]
         attempt == attemptRow(r.attemptId)
     IN IF attempt = Null
        THEN Step(i, Finish(r, "Attempt not found", Null))
        ELSE IF Val(attempt).status # "in_progress"
        THEN Step(i, Finish(r, "Cannot submit answer for completed or abandoned attempt", Null))
        ELSE Step(i, [r EXCEPT !.pc = "question", !.attempt = attempt])
  /\ UNCHANGED <<dbVars, graded, wsVars>>

\* a binding of the question to any exam is taken for a binding to this one
questionBound_AnyExam(examId, questionId) ==
  \E eq \in examQuestions : eq.questionId = questionId

\* service lines 245-250: a row of exam_questions for this exam and question
questionBound(examId, questionId) ==
  \E eq \in examQuestions : eq.examId = examId /\ eq.questionId = questionId

\* service lines 234-263: the question, its binding to the attempt's exam,
\* and the grade
submitAnswer_question(i) ==
  /\ At(i, "submitAnswer", "question")
  /\ LET r == reqs[i]
     IN IF r.questionId \notin DOMAIN questions
        THEN Step(i, Finish(r, "Question not found", Null))
        ELSE IF ~questionBound(Val(r.attempt).examId, r.questionId)
        THEN Step(i, Finish(r, "Question not part of this exam", Null))
        ELSE \E examQuestion \in examQuestionLimit1(r.questionId) :
               Step(i, [r EXCEPT !.pc = "existing",
                          !.gradeResult = Some(autoGradeAnswer(
                             questions[r.questionId].questionType, r.questionId,
                             r.payload.selectedOptionId, r.payload.selectedOptionIds,
                             r.payload.textAnswer, examQuestion))])
  /\ UNCHANGED <<dbVars, graded, wsVars>>

\* rows of user_answers for (attemptId, questionId)
answerRows(attemptId, questionId) ==
  {k \in DOMAIN userAnswers :
     userAnswers[k].attemptId = attemptId /\ userAnswers[k].questionId = questionId}

\* service lines 265-270
submitAnswer_existing(i) ==
  /\ At(i, "submitAnswer", "existing")
  /\ LET r == reqs[i]
         rows == answerRows(r.attemptId, r.questionId)
     IN IF rows = {}
        THEN Step(i, [r EXCEPT !.pc = "save", !.existingAnswer = Null])
        ELSE \E k \in rows :
               Step(i, [r EXCEPT !.pc = "save",
                                 !.existingAnswer = Some([id |-> k, row |-> userAnswers[k]])])
  /\ UNCHANGED <<dbVars, graded, wsVars>>

\* the store without the unique index
uniqueViolation_NoIndex(attemptId, questionId) == FALSE

\* unique_attempt_question_idx of schema.ts: an INSERT of a second row for the
\* same (attempt_id, question_id) is rejected by the store
uniqueViolation(attemptId, questionId) == answerRows(attemptId, questionId) # {}

\* answerData (service lines 272-281); `x || null` maps 0, [] stays an array
answerData(r) ==
  [attemptId |-> r.attemptId, questionId |-> r.questionId,
   selectedOptionId |-> IF r.payload.selectedOptionId # Null
                           /\ Val(r.payload.selectedOptionId) = 0
                        THEN Null ELSE r.payload.selectedOptionId,
   selectedOptionIds |-> r.payload.selectedOptionIds,
   textAnswer |-> r.payload.textAnswer,
   isCorrect |-> Val(r.gradeResult).isCorrect,
   pointsAwarded |-> Val(r.gradeResult).pointsAwarded]

\* an UPDATE that refreshes the grade but keeps the stored selection
updatedAnswer_KeepSelection(old, data) ==
  [data EXCEPT !.selectedOptionId = old.selectedOptionId,
               !.pointsAwarded = IF old.pointsAwarded > data.pointsAwarded
                                 THEN old.pointsAwarded ELSE data.pointsAwarded]

\* the UPDATE of lines 287-294: every answer column is overwritten
updatedAnswer(old, data) == data

\* the store's error for a second row under unique_attempt_question_idx
DuplicateKeyError == "duplicate key value violates unique constraint"

\* after the row is saved: the statistics update is skipped for an ungraded answer
afterSave(r) ==
  IF Val(r.gradeResult).isCorrect # Null
  THEN [r EXCEPT !.pc = "stats"]
  ELSE Finish(r, "ok", r.gradeResult)

\* service lines 283-307: update the row found, or insert a new one
submitAnswer_save(i) ==
  /\ At(i, "submitAnswer", "save")
  /\ LET r == reqs[i]
     IN IF r.existingAnswer # Null
        THEN /\ userAnswers' = [userAnswers EXCEPT ![Val(r.existingAnswer).id] =
                                  updatedAnswer(@, answerData(r))]
             /\ Step(i, afterSave(r))
        ELSE IF uniqueViolation(r.attemptId, r.questionId)
        THEN /\ UNCHANGED userAnswers
             /\ Step(i, Finish(r, DuplicateKeyError, Null))
        ELSE /\ userAnswers' = Append(userAnswers, answerData(r))
             /\ Step(i, afterSave(r))
  /\ UNCHANGED <<exams, questions, questionOptions, examQuestions, examAttempts, graded, wsVars>>

\* counters read when the request arrived, incremented and written back
updateQuestionStats_ReadThenWrite(questionId, isCorrect) ==
  LET i == CHOOSE j \in DOMAIN reqs : At(j, "submitAnswer", "stats") /\ reqs[j].questionId = questionId
      read == reqs[i].questionsBefore[questionId]
  IN questions' = [questions EXCEPT
       ![questionId].usageCount = read.usageCount + 1,
       ![questionId].totalAnswerCount = read.totalAnswerCount + 1,
       ![questionId].correctAnswerCount =
          IF isCorrect THEN read.correctAnswerCount + 1 ELSE read.correctAnswerCount]

\* updateQuestionStats (service lines 667-678): increments done by the store
updateQuestionStats(questionId, isCorrect) ==
  questions' = [questions EXCEPT
    ![questionId].usageCount = @ + 1,
    ![questionId].totalAnswerCount = @ + 1,
    ![questionId].correctAnswerCount = IF isCorrect THEN @ + 1 ELSE @]

\* service lines 309-318
submitAnswer_stats(i) ==
  /\ At(i, "submitAnswer", "stats")
  /\ LET r == reqs[i]
     IN /\ updateQuestionStats(r.questionId, Val(Val(r.gradeResult).isCorrect))
        /\ Step(i, Finish(r, "ok", r.gradeResult))
  /\ UNCHANGED <<exams, questionOptions, examQuestions, examAttempts, userAnswers, graded, wsVars>>

(***************************************************************************)
(* AttemptService.calculateScore                                           *)
(***************************************************************************)
\* Math.round(x * 100) / 100 for x = totalPoints / maxPoints * 100, kept in
\* hundredths of a percent
roundedPercentage(totalPoints, maxPoints) ==
  IF maxPoints > 0 THEN (2 * totalPoints * 10000 + maxPoints) \div (2 * maxPoints) ELSE 0

\* an aggregator that takes an answer awaiting a grade for no answer
calculateScore_UngradedUnanswered(attemptId) ==
  LET attempt == examAttempts[attemptId]
      examQuestionsList == {eq \in examQuestions : eq.examId = attempt.examId}
      totalQuestions == Cardinality(examQuestionsList)
      maxPoints == SumOver(examQuestionsList, [eq \in examQuestionsList |-> eq.points])
      answers == {k \in DOMAIN userAnswers : userAnswers[k].attemptId = attemptId}
      correct == {k \in answers : userAnswers[k].isCorrect = Some(TRUE)}
      incorrect == {k \in answers : userAnswers[k].isCorrect = Some(FALSE)}
      totalPoints == SumOver(correct, [k \in correct |-> userAnswers[k].pointsAwarded])
  IN [totalQuestions |-> totalQuestions,
      correctAnswers |-> Cardinality(correct),
      incorrectAnswers |-> Cardinality(incorrect),
      unansweredQuestions |-> totalQuestions - Cardinality(correct \cup incorrect),
      needsGrading |-> Cardinality(answers \ (correct \cup incorrect)),
      totalPoints |-> totalPoints,
      maxPoints |-> maxPoints,
      percentage |-> roundedPercentage(totalPoints, maxPoints)]

\* service lines 462-519
calculateScore(attemptId) ==
  LET attempt == examAttempts[attemptId]
      examQuestionsList == {eq \in examQuestions : eq.examId = attempt.examId}
      totalQuestions == Cardinality(examQuestionsList)
      maxPoints == SumOver(examQuestionsList, [eq \in examQuestionsList |-> eq.points])
      answers == {k \in DOMAIN userAnswers : userAnswers[k].attemptId = attemptId}
      correct == {k \in answers : userAnswers[k].isCorrect = Some(TRUE)}
      incorrect == {k \in answers : userAnswers[k].isCorrect = Some(FALSE)}
      totalPoints == SumOver(correct, [k \in correct |-> userAnswers[k].pointsAwarded])
  IN [totalQuestions |-> totalQuestions,
      correctAnswers |-> Cardinality(correct),
      incorrectAnswers |-> Cardinality(incorrect),
      unansweredQuestions |-> totalQuestions - Cardinality(answers),
      needsGrading |-> Cardinality(answers \ (correct \cup incorrect)),
      totalPoints |-> totalPoints,
      maxPoints |-> maxPoints,
      percentage |-> roundedPercentage(totalPoints, maxPoints)]

(***************************************************************************)
(* AttemptController.submitExam / AttemptService.submitExam                *)
(***************************************************************************)
BeginSubmitExam(users) ==
  /\ BeginOnAttempt("submitExam", users)
  /\ UNCHANGED <<dbVars, graded, wsVars>>

\* controller lines 258-269
submitExam_ctl(i) ==
  /\ At(i, "submitExam", "ctl")
  /\ LET r == reqs[i]
     IN IF ownershipError(r) # ""
        THEN Step(i, Finish(r, ownershipError(r), Null))
        ELSE Step(i, [r EXCEPT !.pc = "attempt"])
  /\ UNCHANGED <<dbVars, graded, wsVars>>

\* service lines 397-410: the status check
submitExam_attempt(i) ==
  /\ At(i, "submitExam", "attempt")
  /\ LET r == reqs[i]
         attempt == attemptRow(r.attemptId)
     IN IF attempt = Null
        THEN Step(i, Finish(r, "Attempt not found", Null))
        ELSE IF Val(attempt).status # "in_progress"
        THEN Step(i, Finish(r, "Attempt already submitted", Null))
        ELSE Step(i, [r EXCEPT !.pc = "score", !.attempt = attempt])
  /\ UNCHANGED <<dbVars, graded, wsVars>>

\* service lines 412-420: the exam and the score
submitExam_score(i) ==
  /\ At(i, "submitExam", "score")
  /\ LET r == reqs[i]
     IN Step(i, [r EXCEPT !.pc = "update",
                          !.examData = Some(exams[Val(r.attempt).examId]),
                          !.scoreResult = Some(calculateScore(r.attemptId))])
  /\ UNCHANGED <<dbVars, graded, wsVars>>

\* a final status that looks at unanswered questions only
finalStatus_UnansweredOnly(scoreResult) ==
  IF scoreResult.unansweredQuestions > 0 THEN "grading" ELSE "completed"

\* lines 425-427: hasSubjectiveQuestions and finalStatus
finalStatus(scoreResult) ==
  IF scoreResult.unansweredQuestions > 0 \/ scoreResult.needsGrading > 0
  THEN "grading" ELSE "completed"

\* a pass mark given only to an attempt that needs no grading
isPassed_CompletedOnly(scoreResult, exam) ==
  IF finalStatus(scoreResult) = "completed"
  THEN Some(scoreResult.percentage >= exam.passingScore * 100) ELSE Null

\* line 430 (percentage in hundredths of a percent)
isPassed(scoreResult, exam) == Some(scoreResult.percentage >= exam.passingScore * 100)

\* the row written by lines 433-449
finalizedAttempt(old, scoreResult, exam) ==
  [old EXCEPT
     !.status = finalStatus(scoreResult),
     !.completedAt = Some("now"),
     !.submittedAt = Some("now"),
     !.score = Some(scoreResult.percentage),
     !.totalPoints = scoreResult.totalPoints,
     !.correctAnswers = scoreResult.correctAnswers,
     !.incorrectAnswers = scoreResult.incorrectAnswers,
     !.unansweredQuestions = scoreResult.unansweredQuestions,
     !.isPassed = isPassed(scoreResult, exam)]

\* service lines 422-456: `update exam_attempts ... where id = ?`
submitExam_update(i) ==
  /\ At(i, "submitExam", "update")
  /\ LET r == reqs[i]
         row == finalizedAttempt(examAttempts[r.attemptId], Val(r.scoreResult), Val(r.examData))
     IN /\ examAttempts' = [examAttempts EXCEPT ![r.attemptId] = row]
        /\ Step(i, Finish(r, "ok", Some([status |-> row.status, isPassed |-> row.isPassed,
                                         score |-> Val(r.scoreResult)])))
  /\ UNCHANGED <<exams, questions, questionOptions, examQuestions, userAnswers, graded, wsVars>>

(***************************************************************************)
(* AttemptController.abandonAttempt / AttemptService.abandonAttempt        *)
(***************************************************************************)
BeginAbandonAttempt(users) ==
  /\ BeginOnAttempt("abandonAttempt", users)
  /\ UNCHANGED <<dbVars, graded, wsVars>>

\* controller lines 367-393: the status is tested on the row just read
abandonAttempt_ctl(i) ==
  /\ At(i, "abandonAttempt", "ctl")
  /\ LET r == reqs[i]
     IN IF ownershipError(r) # ""
        THEN Step(i, Finish(r, ownershipError(r), Null))
        ELSE IF examAttempts[r.attemptId].status = "in_progress"
        THEN Step(i, [r EXCEPT !.pc = "abandon"])
        ELSE Step(i, Finish(r, "Attempt already completed or abandoned", Null))
  /\ UNCHANGED <<dbVars, graded, wsVars>>

\* service lines 683-695: `update exam_attempts set status = 'abandoned' where id = ?`
abandonAttempt(i) ==
  /\ At(i, "abandonAttempt", "abandon")
  /\ LET r == reqs[i]
     IN /\ examAttempts' = [examAttempts EXCEPT ![r.attemptId].status = "abandoned",
                                                 ![r.attemptId].completedAt = Some("now")]
        /\ Step(i, Finish(r, "Attempt abandoned", Some(examAttempts'[r.attemptId])))
  /\ UNCHANGED <<exams, questions, questionOptions, examQuestions, userAnswers, graded, wsVars>>

(***************************************************************************)
(* Overlapping requests: any handler may run between two awaits of another. *)
(* One user issues the requests, on the questions and with the answers     *)
(* that reach the store.                                                   *)
(***************************************************************************)
ConcUsers == {1}
ConcQuestionIds == {1}
ConcPayloads == singleChoicePayloads({1, 2})

CanArrive == nreqs < MaxReqs /\ Cardinality(InFlight) < MaxInFlight

Next ==
  \/ CanArrive /\ BeginStartAttempt(ConcUsers, ExamIds)
  \/ CanArrive /\ BeginSubmitAnswer(ConcUsers, ConcQuestionIds, ConcPayloads)
  \/ CanArrive /\ BeginSubmitExam(ConcUsers)
  \/ CanArrive /\ BeginAbandonAttempt(ConcUsers)
  \/ \E i \in DOMAIN reqs : startAttempt_exam(i)
  \/ \E i \in DOMAIN reqs : startAttempt_countQuestions(i)
  \/ \E i \in DOMAIN reqs : startAttempt_countAttempts(i)
  \/ \E i \in DOMAIN reqs : startAttempt_insert(i)
  \/ \E i \in DOMAIN reqs : startAttempt_questions(i)
  \/ \E i \in DOMAIN reqs : submitAnswer_ctl(i)
  \/ \E i \in DOMAIN reqs : submitAnswer_attempt(i)
  \/ \E i \in DOMAIN reqs : submitAnswer_question(i)
  \/ \E i \in DOMAIN reqs : submitAnswer_existing(i)
  \/ \E i \in DOMAIN reqs : submitAnswer_save(i)
  \/ \E i \in DOMAIN reqs : submitAnswer_stats(i)
  \/ \E i \in DOMAIN reqs : submitExam_ctl(i)
  \/ \E i \in DOMAIN reqs : submitExam_attempt(i)
  \/ \E i \in DOMAIN reqs : submitExam_score(i)
  \/ \E i \in DOMAIN reqs : submitExam_update(i)
  \/ \E i \in DOMAIN reqs : abandonAttempt_ctl(i)
  \/ \E i \in DOMAIN reqs : abandonAttempt(i)

Spec == Init /\ [][Next]_vars

(***************************************************************************)
(* AttemptService.getAttemptById / getAttemptResults                       *)
(***************************************************************************)
\* lines 174-209: the attempt with its exam and its answers, each answer
\* joined with the option row it selected
getAttemptById(id) ==
  IF id \notin DOMAIN examAttempts THEN Null
  ELSE Some([attempt |-> examAttempts[id],
             exam |-> exams[examAttempts[id].examId],
             answers |-> {[answer |-> userAnswers[k],
                           selectedOption |->
                             {o \in questionOptions :
                                /\ userAnswers[k].selectedOptionId # Null
                                /\ o.id = Val(userAnswers[k].selectedOptionId)}] :
                          k \in {x \in DOMAIN userAnswers : userAnswers[x].attemptId = id}}])

\* results handed to whoever asks
notOwner_Nobody(attempt, userId) == FALSE

\* line 533
notOwner(attempt, userId) == attempt.userId # userId

\* answers shown for every attempt that is no longer in progress
showAnswers_AnySubmitted(exam, attempt) ==
  \/ exam.showAnswersAfter = "immediately"
  \/ (exam.showAnswersAfter = "after_submit" /\ attempt.status # "in_progress")

\* lines 544-546
showAnswers(exam, attempt) ==
  \/ exam.showAnswersAfter = "immediately"
  \/ (exam.showAnswersAfter = "after_submit" /\ attempt.status = "completed")

\* lines 525-607
getAttemptResults(attemptId, userId) ==
  LET attemptData == getAttemptById(attemptId)
      empty == [error |-> "", attempt |-> Null, showAnswers |-> FALSE, questions |-> {}]
  IN IF attemptData = Null THEN [empty EXCEPT !.error = "Attempt not found"]
     ELSE IF notOwner(Val(attemptData).attempt, userId)
     THEN [empty EXCEPT !.error = "Unauthorized to view this attempt"]
     ELSE LET exam == Val(attemptData).exam
              show == showAnswers(exam, Val(attemptData).attempt)
              questionsWithAnswers ==
                {[questionId |-> eq.questionId, points |-> eq.points,
                  options |-> {o \in questionOptions : o.questionId = eq.questionId},
                  userAnswer |-> {x.answer : x \in {y \in Val(attemptData).answers :
                                                      y.answer.questionId = eq.questionId}}] :
                   eq \in {x \in examQuestions : x.examId = Val(attemptData).attempt.examId}}
          IN [error |-> "", attempt |-> attemptData, showAnswers |-> show,
              questions |-> IF show THEN questionsWithAnswers ELSE {}]

\* AttemptController.getResults (controller lines 293-317): the whole read-only
\* handler; an error thrown by the service becomes the response message
getResults(users) ==
  /\ \E userId \in users, attemptId \in 1..(Len(examAttempts) + 1) :
       LET results == getAttemptResults(attemptId, userId)
           r == NewReq("getResults", userId, 0, attemptId, 0, NoPayload, "results")
       IN IF results.error # ""
          THEN Arrive(Finish(r, results.error, Null))
          ELSE Arrive(Finish(r, "ok", Some(results)))
  /\ UNCHANGED <<dbVars, graded, wsVars>>

(***************************************************************************)
(* Exam and question administration (ExamService, QuestionService).  These *)
(* handlers are run to completion while no other request is being served.  *)
(***************************************************************************)
Forget == reqs' = SelectSeq(reqs, LAMBDA x : x.pc # "done") /\ nreqs' = nreqs + 1

\* exam.service.ts lines 226-275
addQuestionsToExam(examId, questionIds) ==
  /\ questionIds # {}
  /\ questionIds \subseteq DOMAIN questions
  \* unique_exam_question_idx rejects the INSERT when a binding exists
  /\ \A eq \in examQuestions : ~(eq.examId = examId /\ eq.questionId \in questionIds)
  /\ examQuestions' = examQuestions \cup
       {ExamQuestion(examId, q, questions[q].points) : q \in questionIds}
  /\ exams' = [exams EXCEPT
       ![examId].totalQuestions = @ + Cardinality(questionIds),
       ![examId].totalPoints = @ + SumOver(questionIds, [q \in questionIds |-> questions[q].points])]
  /\ Forget
  /\ UNCHANGED <<questions, questionOptions, examAttempts, userAnswers, graded, wsVars>>

\* exam.service.ts lines 281-309
removeQuestionFromExam(examId, questionId) ==
  /\ \E examQuestion \in examQuestions :
       /\ examQuestion.examId = examId /\ examQuestion.questionId = questionId
       /\ examQuestions' = examQuestions \ {examQuestion}
       /\ exams' = [exams EXCEPT ![examId].totalQuestions = @ - 1,
                                 ![examId].totalPoints = @ - examQuestion.points]
  /\ Forget
  /\ UNCHANGED <<questions, questionOptions, examAttempts, userAnswers, graded, wsVars>>

\* QuestionService.updateQuestion with data = {points}
updateQuestion(id, points) ==
  /\ questions[id].points # points
  /\ questions' = [questions EXCEPT ![id].points = points]
  /\ Forget
  /\ UNCHANGED <<exams, questionOptions, examQuestions, examAttempts, userAnswers, graded, wsVars>>

(***************************************************************************)
(* Requests served one after the other, by either user, with exam and      *)
(* question administration in between.                                     *)
(***************************************************************************)
CanArriveSeq == nreqs < MaxSeqReqs /\ InFlight = {}

\* the question whose point value is edited after it has been bound
RepointedQuestionIds == {1}

NextSeq ==
  \/ CanArriveSeq /\ BeginStartAttempt(Users, ExamIds)
  \/ CanArriveSeq /\ BeginSubmitAnswer(Users, QuestionIds, AnswerPayloads)
  \/ CanArriveSeq /\ BeginSubmitAnswerMissing(ConcUsers, ConcQuestionIds, textPayloads)
  \/ CanArriveSeq /\ BeginSubmitExam(Users)
  \/ CanArriveSeq /\ BeginAbandonAttempt(Users)
  \/ CanArriveSeq /\ \E examId \in ExamIds, q \in QuestionIds : addQuestionsToExam(examId, {q})
  \/ CanArriveSeq /\ \E examId \in ExamIds, q \in QuestionIds : removeQuestionFromExam(examId, q)
  \/ CanArriveSeq /\ \E q \in RepointedQuestionIds, points \in PointValues : updateQuestion(q, points)
  \/ \E i \in DOMAIN reqs : startAttempt_exam(i)
  \/ \E i \in DOMAIN reqs : startAttempt_countQuestions(i)
  \/ \E i \in DOMAIN reqs : startAttempt_countAttempts(i)
  \/ \E i \in DOMAIN reqs : startAttempt_insert(i)
  \/ \E i \in DOMAIN reqs : startAttempt_questions(i)
  \/ \E i \in DOMAIN reqs : submitAnswer_ctl(i)
  \/ \E i \in DOMAIN reqs : submitAnswer_attempt(i)
  \/ \E i \in DOMAIN reqs : submitAnswer_question(i)
  \/ \E i \in DOMAIN reqs : submitAnswer_existing(i)
  \/ \E i \in DOMAIN reqs : submitAnswer_save(i)
  \/ \E i \in DOMAIN reqs : submitAnswer_stats(i)
  \/ \E i \in DOMAIN reqs : submitExam_ctl(i)
  \/ \E i \in DOMAIN reqs : submitExam_attempt(i)
  \/ \E i \in DOMAIN reqs : submitExam_score(i)
  \/ \E i \in DOMAIN reqs : submitExam_update(i)
  \/ \E i \in DOMAIN reqs : abandonAttempt_ctl(i)
  \/ \E i \in DOMAIN reqs : abandonAttempt(i)

SpecSeq == Init /\ [][NextSeq]_vars

(***************************************************************************)
(* Results of attempts on exam 1 under each answer-visibility policy:      *)
(* one candidate takes the exam, either user asks for the results, and     *)
(* questions are bound or removed in between.                              *)
(***************************************************************************)
ShowAnswersPolicies == {"immediately", "after_submit", "never"}

Candidates == {1}
ResultsExamIds == {1}

InitResults ==
  /\ \E policy \in ShowAnswersPolicies :
       exams = [createdExams EXCEPT ![1].showAnswersAfter = policy]
  /\ questions = [q \in QuestionIds |->
                    IF q = 1 THEN Question("multiple_choice", 1)
                    ELSE Question("essay", 1)]
  /\ questionOptions = {Option(1, 1, TRUE), Option(2, 1, FALSE)}
  /\ examQuestions = {ExamQuestion(1, 1, 1)}
  /\ examAttempts = <<>>
  /\ userAnswers = <<>>
  /\ reqs = <<>>
  /\ nreqs = 0
  /\ graded = NotGraded
  /\ clients = NoClients
  /\ rooms = NoRooms

NextResults ==
  \/ CanArriveSeq /\ BeginStartAttempt(Candidates, ResultsExamIds)
  \/ CanArriveSeq /\ BeginSubmitAnswer(Candidates, QuestionIds, AnswerPayloads)
  \/ CanArriveSeq /\ BeginSubmitExam(Candidates)
  \/ CanArriveSeq /\ BeginAbandonAttempt(Candidates)
  \/ CanArriveSeq /\ \E examId \in ResultsExamIds, q \in QuestionIds : addQuestionsToExam(examId, {q})
  \/ CanArriveSeq /\ \E examId \in ResultsExamIds, q \in QuestionIds : removeQuestionFromExam(examId, q)
  \/ CanArriveSeq /\ getResults(Users)
  \/ \E i \in DOMAIN reqs : startAttempt_exam(i)
  \/ \E i \in DOMAIN reqs : startAttempt_countQuestions(i)
  \/ \E i \in DOMAIN reqs : startAttempt_countAttempts(i)
  \/ \E i \in DOMAIN reqs : startAttempt_insert(i)
  \/ \E i \in DOMAIN reqs : startAttempt_questions(i)
  \/ \E i \in DOMAIN reqs : submitAnswer_ctl(i)
  \/ \E i \in DOMAIN reqs : submitAnswer_attempt(i)
  \/ \E i \in DOMAIN reqs : submitAnswer_question(i)
  \/ \E i \in DOMAIN reqs : submitAnswer_existing(i)
  \/ \E i \in DOMAIN reqs : submitAnswer_save(i)
  \/ \E i \in DOMAIN reqs : submitAnswer_stats(i)
  \/ \E i \in DOMAIN reqs : submitExam_ctl(i)
  \/ \E i \in DOMAIN reqs : submitExam_attempt(i)
  \/ \E i \in DOMAIN reqs : submitExam_score(i)
  \/ \E i \in DOMAIN reqs : submitExam_update(i)
  \/ \E i \in DOMAIN reqs : abandonAttempt_ctl(i)
  \/ \E i \in DOMAIN reqs : abandonAttempt(i)

SpecResults == InitResults /\ [][NextResults]_vars

(***************************************************************************)
(* Store written by the seed script (db/seed.ts): every exam row is        *)
(* inserted with a literal totalPoints (10 for the two practice exams),    *)
(* totalQuestions left at its default 0, no attempt limit; the bindings    *)
(* are inserted directly, one per question of the exam's category with the *)
(* question's points (1 each).  Attempts are started and questions bound   *)
(* or removed, one request after the other.                                *)
(***************************************************************************)
seededExams ==
  [e \in ExamIds |->
     [Exam(TRUE, Null, 60, Some(30), 10, "after_submit") EXCEPT !.totalQuestions = 0]]

InitSeed ==
  /\ exams = seededExams
  /\ questions = [q \in QuestionIds |->
                    IF q = 1 THEN Question("multiple_choice", 1)
                    ELSE Question("true_false", 1)]
  /\ questionOptions = {Option(1, 1, TRUE), Option(2, 1, FALSE),
                        Option(3, 2, TRUE), Option(4, 2, FALSE)}
  /\ examQuestions = {ExamQuestion(1, 1, 1), ExamQuestion(2, 2, 1)}
  /\ examAttempts = <<>>
  /\ userAnswers = <<>>
  /\ reqs = <<>>
  /\ nreqs = 0
  /\ graded = NotGraded
  /\ clients = NoClients
  /\ rooms = NoRooms

NextSeed ==
  \/ CanArriveSeq /\ BeginStartAttempt(Users, ExamIds)
  \/ CanArriveSeq /\ \E examId \in ExamIds, q \in QuestionIds : addQuestionsToExam(examId, {q})
  \/ CanArriveSeq /\ \E examId \in ExamIds, q \in QuestionIds : removeQuestionFromExam(examId, q)
  \/ \E i \in DOMAIN reqs : startAttempt_exam(i)
  \/ \E i \in DOMAIN reqs : startAttempt_countQuestions(i)
  \/ \E i \in DOMAIN reqs : startAttempt_insert(i)
  \/ \E i \in DOMAIN reqs : startAttempt_questions(i)

SpecSeed == InitSeed /\ [][NextSeed]_vars

(***************************************************************************)
(* Question review (ReviewService).  Each operation reads the question(s), *)
(* tests the status, and then writes with an UPDATE that names only the    *)
(* id(s); other review requests may run between the read and the write.    *)
(***************************************************************************)
QuestionStatuses == {"draft", "pending_review", "approved", "rejected"}

\* questionIds arrays of the bulk requests (bulkApproveSchema: at least one id)
BulkQuestionIds == {<<1>>, <<1, 2>>, <<1, 1>>}

NewReviewReq(kind, userId, questionIds) ==
  [kind |-> kind, pc |-> "check", userId |-> userId, questionIds |-> questionIds,
   result |-> ""]

FinishReview(r, result) == [r EXCEPT !.pc = "done", !.result = result]

reviewFrame == UNCHANGED <<exams, questionOptions, examQuestions, examAttempts, userAnswers, graded, wsVars>>

BeginSubmitForReview ==
  /\ \E userId \in Users, questionId \in QuestionIds :
       Arrive(NewReviewReq("submitForReview", userId, <<questionId>>))
  /\ UNCHANGED <<dbVars, graded, wsVars>>

BeginApproveQuestion ==
  /\ \E questionId \in QuestionIds : Arrive(NewReviewReq("approveQuestion", 2, <<questionId>>))
  /\ UNCHANGED <<dbVars, graded, wsVars>>

BeginRejectQuestion ==
  /\ \E questionId \in QuestionIds : Arrive(NewReviewReq("rejectQuestion", 2, <<questionId>>))
  /\ UNCHANGED <<dbVars, graded, wsVars>>

BeginBulkApprove ==
  /\ \E questionIds \in BulkQuestionIds : Arrive(NewReviewReq("bulkApprove", 2, questionIds))
  /\ UNCHANGED <<dbVars, graded, wsVars>>

BeginBulkReject ==
  /\ \E questionIds \in BulkQuestionIds : Arrive(NewReviewReq("bulkReject", 2, questionIds))
  /\ UNCHANGED <<dbVars, graded, wsVars>>

\* `update questions set status = ? where id = ANY(ids)`
setStatus(questionIds, status) ==
  questions' = [q \in DOMAIN questions |->
                  IF q \in Range(questionIds) THEN [questions[q] EXCEPT !.status = status]
                  ELSE questions[q]]

\* part_011 lines 106-123
submitForReview_check(i) ==
  /\ At(i, "submitForReview", "check")
  /\ LET r == reqs[i]
         id == r.questionIds[1]
     IN IF questions[id].createdBy # r.userId
        THEN Step(i, FinishReview(r, "Question not found or you do not have permission"))
        ELSE IF questions[id].status \notin {"draft", "rejected"}
        THEN Step(i, FinishReview(r, "Cannot submit question with status"))
        ELSE Step(i, [r EXCEPT !.pc = "update"])
  /\ UNCHANGED <<dbVars, graded, wsVars>>

\* part_011 lines 125-135
submitForReview_update(i) ==
  /\ At(i, "submitForReview", "update")
  /\ setStatus(reqs[i].questionIds, "pending_review")
  /\ Step(i, FinishReview(reqs[i], "ok"))
  /\ reviewFrame

\* part_011 lines 140-153
approveQuestion_check(i) ==
  /\ At(i, "approveQuestion", "check")
  /\ LET r == reqs[i]
     IN IF questions[r.questionIds[1]].status # "pending_review"
        THEN Step(i, FinishReview(r, "Question must be in pending_review status"))
        ELSE Step(i, [r EXCEPT !.pc = "update"])
  /\ UNCHANGED <<dbVars, graded, wsVars>>

\* part_011 lines 155-169
approveQuestion_update(i) ==
  /\ At(i, "approveQuestion", "update")
  /\ setStatus(reqs[i].questionIds, "approved")
  /\ Step(i, FinishReview(reqs[i], "ok"))
  /\ reviewFrame

\* part_011 lines 174-191 (the controller's schema guarantees the notes)
rejectQuestion_check(i) ==
  /\ At(i, "rejectQuestion", "check")
  /\ LET r == reqs[i]
     IN IF questions[r.questionIds[1]].status # "pending_review"
        THEN Step(i, FinishReview(r, "Question must be in pending_review status"))
        ELSE Step(i, [r EXCEPT !.pc = "update"])
  /\ UNCHANGED <<dbVars, graded, wsVars>>

\* part_011 lines 193-206
rejectQuestion_update(i) ==
  /\ At(i, "rejectQuestion", "update")
  /\ setStatus(reqs[i].questionIds, "rejected")
  /\ Step(i, FinishReview(reqs[i], "ok"))
  /\ reviewFrame

\* the first query of a bulk operation: the rows with id = ANY(ids) and status
\* pending_review are counted against the length of the array; the array is
\* passed through a raw sql fragment, which the driver may refuse to bind
bulkCheck(i, kind) ==
  /\ At(i, kind, "check")
  /\ LET r == reqs[i]
         found == {q \in Range(r.questionIds) : questions[q].status = "pending_review"}
     IN \/ Step(i, FinishReview(r, "database error"))
        \/ IF Cardinality(found) # Len(r.questionIds)
           THEN Step(i, FinishReview(r, "Some questions are not in pending_review status"))
           ELSE Step(i, [r EXCEPT !.pc = "update"])
  /\ UNCHANGED <<dbVars, graded, wsVars>>

\* part_011 lines 211-222
bulkApprove_check(i) == bulkCheck(i, "bulkApprove")

\* part_011 lines 224-237
bulkApprove_update(i) ==
  /\ At(i, "bulkApprove", "update")
  /\ setStatus(reqs[i].questionIds, "approved")
  /\ Step(i, FinishReview(reqs[i], "ok"))
  /\ reviewFrame

\* part_011 lines 243-258
bulkReject_check(i) == bulkCheck(i, "bulkReject")

\* part_011 lines 260-273
bulkReject_update(i) ==
  /\ At(i, "bulkReject", "update")
  /\ setStatus(reqs[i].questionIds, "rejected")
  /\ Step(i, FinishReview(reqs[i], "ok"))
  /\ reviewFrame

NextReview ==
  \/ CanArrive /\ BeginSubmitForReview
  \/ CanArrive /\ BeginApproveQuestion
  \/ CanArrive /\ BeginRejectQuestion
  \/ CanArrive /\ BeginBulkApprove
  \/ CanArrive /\ BeginBulkReject
  \/ \E i \in DOMAIN reqs : submitForReview_check(i)
  \/ \E i \in DOMAIN reqs : submitForReview_update(i)
  \/ \E i \in DOMAIN reqs : approveQuestion_check(i)
  \/ \E i \in DOMAIN reqs : approveQuestion_update(i)
  \/ \E i \in DOMAIN reqs : rejectQuestion_check(i)
  \/ \E i \in DOMAIN reqs : rejectQuestion_update(i)
  \/ \E i \in DOMAIN reqs : bulkApprove_check(i)
  \/ \E i \in DOMAIN reqs : bulkApprove_update(i)
  \/ \E i \in DOMAIN reqs : bulkReject_check(i)
  \/ \E i \in DOMAIN reqs : bulkReject_update(i)

SpecReview == Init /\ [][NextReview]_vars

(***************************************************************************)
(* Properties of the auto-grader                                           *)
(***************************************************************************)
\* ids of the options of question q marked correct in the store
CorrectIdSet(q) == {o.id : o \in {x \in questionOptions : x.questionId = q /\ x.isCorrect}}

\* C7: for a multiple_answer question and a non-empty submitted list, isCorrect
\* is true exactly when the set of submitted ids equals the set of correct ids,
\* and an answer that is not set-equal gets zero points.
C7_ExactSetEquality ==
  (graded.done /\ graded.questionType = "multiple_answer"
     /\ graded.payload.selectedOptionIds # Null
     /\ Len(Val(graded.payload.selectedOptionIds)) > 0)
  => LET same == Range(Val(graded.payload.selectedOptionIds)) = CorrectIdSet(graded.questionId)
     IN /\ graded.out.isCorrect = Some(same)
        /\ (~same => graded.out.pointsAwarded = 0)

\* C8: for a multiple_choice or true_false question, isCorrect is true exactly
\* when the submitted option id is a correct option of the question; with no
\* option submitted the result is incorrect, zero points, no manual grading.
C8_SingleChoice ==
  (graded.done /\ graded.questionType \in {"multiple_choice", "true_false"})
  => IF graded.payload.selectedOptionId = Null
     THEN graded.out = [isCorrect |-> Some(FALSE), pointsAwarded |-> 0,
                        needsManualGrading |-> FALSE]
     ELSE /\ graded.out.isCorrect =
               Some(Val(graded.payload.selectedOptionId) \in CorrectIdSet(graded.questionId))
          /\ graded.out.needsManualGrading = FALSE

C8_Witness ==
  /\ graded.done
  /\ graded.questionType = "multiple_choice"
  /\ graded.payload.selectedOptionId # Null
  /\ Val(graded.payload.selectedOptionId) \in CorrectIdSet(graded.questionId)
  /\ graded.out.isCorrect = Some(TRUE)

(***************************************************************************)
(* Properties of the attempt state machine under overlapping requests      *)
(***************************************************************************)
\* C1: an attempt's status changes only along in_progress -> completed,
\* in_progress -> grading, in_progress -> abandoned; in particular a completed
\* or abandoned attempt never changes status again.
C1_StatusEdges ==
  [][\A a \in DOMAIN examAttempts :
       examAttempts'[a].status # examAttempts[a].status
       => /\ examAttempts[a].status = "in_progress"
          /\ examAttempts'[a].status \in {"completed", "grading", "abandoned"}]_vars

\* requests that report having moved attempt a out of in_progress
Transitioned(a) ==
  {i \in DOMAIN reqs :
     /\ reqs[i].pc = "done"
     /\ reqs[i].attemptId = a
     /\ \/ reqs[i].kind = "submitExam" /\ reqs[i].result = "ok"
        \/ reqs[i].kind = "abandonAttempt" /\ reqs[i].result = "Attempt abandoned"}

\* C2: of the submitExam and abandon requests on one attempt, at most one
\* transitions it; every other one finds it no longer in_progress and writes
\* nothing.
C2_SingleTransition ==
  \A a \in DOMAIN examAttempts : Cardinality(Transitioned(a)) <= 1

\* C3: a user_answers row is created or modified only while its attempt is
\* in_progress.
C3_AnswersOnlyInProgress ==
  [][\A k \in DOMAIN userAnswers' :
       (k \notin DOMAIN userAnswers \/ userAnswers'[k] # userAnswers[k])
       => examAttempts[userAnswers'[k].attemptId].status = "in_progress"]_vars

\* C5: the store holds at most one user_answers row per (attemptId, questionId).
C5_OneRowPerQuestion ==
  \A k1, k2 \in DOMAIN userAnswers :
    (userAnswers[k1].attemptId = userAnswers[k2].attemptId
       /\ userAnswers[k1].questionId = userAnswers[k2].questionId)
    => k1 = k2

\* two submissions for the same question of one attempt have both been served
C5_Witness ==
  \E i, j \in DOMAIN reqs :
    /\ i # j
    /\ reqs[i].kind = "submitAnswer" /\ reqs[j].kind = "submitAnswer"
    /\ reqs[i].pc = "done" /\ reqs[j].pc = "done"
    /\ reqs[i].attemptId = reqs[j].attemptId
    /\ reqs[i].questionId = reqs[j].questionId
    /\ reqs[i].payload # reqs[j].payload
    /\ reqs[i].result = "ok" /\ reqs[j].result = "ok"
    /\ \E k \in DOMAIN userAnswers :
         /\ userAnswers[k].attemptId = reqs[i].attemptId
         /\ userAnswers[k].questionId = reqs[i].questionId

\* C12: a write that leaves an attempt completed or grading sets isPassed to
\* (percentage >= passingScore) for the percentage it stores; an attempt that
\* is in_progress has isPassed unset, and abandoning an in_progress attempt
\* leaves it unset.
C12_IsPassedOnlyAtFinalization ==
  /\ [](\A a \in DOMAIN examAttempts :
          examAttempts[a].status = "in_progress" => examAttempts[a].isPassed = Null)
  /\ [][\A a \in DOMAIN examAttempts :
          examAttempts'[a] # examAttempts[a]
          => /\ examAttempts'[a].status \in {"completed", "grading"}
                => /\ examAttempts'[a].score # Null
                   /\ examAttempts'[a].isPassed =
                        Some(Val(examAttempts'[a].score)
                               >= exams[examAttempts'[a].examId].passingScore * 100)
             /\ (examAttempts[a].status = "in_progress"
                   /\ examAttempts'[a].status = "abandoned")
                => examAttempts'[a].isPassed = Null]_vars

\* one attempt went to grading with a pass mark, another was abandoned
C12_Witness ==
  \E a, b \in DOMAIN examAttempts :
    /\ examAttempts[a].status = "grading"
    /\ examAttempts[a].isPassed = Some(FALSE)
    /\ examAttempts[b].status = "abandoned"
    /\ examAttempts[b].isPassed = Null

\* C16: an abandon request that finds its attempt in_progress when it
\* finishes leaves it abandoned with completedAt set; one that finds it
\* completed or abandoned leaves the whole row unchanged and reports success.
C16_AbandonFrame ==
  [][\A i \in DOMAIN reqs :
       (nreqs' = nreqs /\ reqs[i].kind = "abandonAttempt" /\ reqs[i].pc # "done"
          /\ reqs'[i].pc = "done" /\ ownershipError(reqs[i]) = "")
       => LET a == reqs[i].attemptId
          IN /\ examAttempts[a].status = "in_progress"
                  => /\ examAttempts'[a].status = "abandoned"
                     /\ examAttempts'[a].completedAt # Null
             /\ examAttempts[a].status \in {"completed", "abandoned"}
                  => /\ examAttempts'[a] = examAttempts[a]
                     /\ reqs'[i].result \in {"Attempt abandoned",
                                             "Attempt already completed or abandoned"}]_vars

(***************************************************************************)
(* Properties of requests served one after the other                       *)
(***************************************************************************)
Served(i, kind) == i \in DOMAIN reqs /\ reqs[i].kind = kind /\ reqs[i].pc = "done"

LimitMessage == "Maximum attempts reached for this exam"

\* completed attempts of a user on an exam
CompletedAttempts(userId, examId) ==
  {a \in DOMAIN examAttempts :
     /\ examAttempts[a].userId = userId
     /\ examAttempts[a].examId = examId
     /\ examAttempts[a].status = "completed"}

\* the user of request i has used up the attempts the exam allows
AtLimit(i) ==
  /\ Served(i, "startAttempt")
  /\ exams[reqs[i].examId].attemptsAllowed # Null
  /\ Cardinality(CompletedAttempts(reqs[i].userId, reqs[i].examId))
       >= Val(exams[reqs[i].examId].attemptsAllowed)

\* the exam passes the checks startAttempt makes before the limit check
Startable(examId) ==
  /\ exams[examId].deletedAt = Null
  /\ exams[examId].isPublished
  /\ \E eq \in examQuestions : eq.examId = examId

\* C4 as stated: with attemptsAllowed = N and N completed attempts of the user,
\* startAttempt fails with the attempt-limit error and creates no row.
C4_LimitRejects ==
  \A i \in DOMAIN reqs :
    AtLimit(i) => /\ reqs[i].result = LimitMessage
                  /\ Len(examAttempts) = reqs[i].attemptsBefore

\* C4 amended: with attemptsAllowed = N and N completed attempts of the user,
\* startAttempt fails and creates no row; the error is the attempt-limit error
\* whenever the exam is not deleted, is published and has a bound question.
C4_LimitRejectsStartable ==
  \A i \in DOMAIN reqs :
    AtLimit(i) => /\ reqs[i].result # "ok"
                  /\ Len(examAttempts) = reqs[i].attemptsBefore
                  /\ (Startable(reqs[i].examId) => reqs[i].result = LimitMessage)

C4_Witness ==
  \E i \in DOMAIN reqs :
    /\ AtLimit(i)
    /\ Startable(reqs[i].examId)
    /\ reqs[i].result = LimitMessage

\* request i replaced an earlier answer by a different one
Resubmitted(i) ==
  /\ Served(i, "submitAnswer")
  /\ reqs[i].result = "ok"
  /\ reqs[i].existingAnswer # Null
  /\ LET old == Val(reqs[i].existingAnswer).row
     IN \/ old.selectedOptionId # reqs[i].payload.selectedOptionId
        \/ old.selectedOptionIds # reqs[i].payload.selectedOptionIds
        \/ old.textAnswer # reqs[i].payload.textAnswer

\* C6: after a second, different answer for the same question the stored row,
\* the totals of calculateScore and the answers getAttemptResults returns
\* reflect only the latest submission.
C6_LatestAnswerWins ==
  \A i \in DOMAIN reqs :
    Resubmitted(i) =>
      LET r == reqs[i]
          mine == {k \in DOMAIN userAnswers :
                     userAnswers[k].attemptId = r.attemptId
                       /\ userAnswers[k].questionId = r.questionId}
          others == {k \in DOMAIN userAnswers :
                       userAnswers[k].attemptId = r.attemptId
                         /\ userAnswers[k].questionId # r.questionId}
          othersCorrect == {k \in others : userAnswers[k].isCorrect = Some(TRUE)}
          othersIncorrect == {k \in others : userAnswers[k].isCorrect = Some(FALSE)}
          grade == Val(r.ret)
          score == calculateScore(r.attemptId)
          results == getAttemptResults(r.attemptId, examAttempts[r.attemptId].userId)
      IN /\ Cardinality(mine) = 1
         /\ \A k \in mine :
              /\ userAnswers[k].selectedOptionId = r.payload.selectedOptionId
              /\ userAnswers[k].selectedOptionIds = r.payload.selectedOptionIds
              /\ userAnswers[k].textAnswer = r.payload.textAnswer
              /\ userAnswers[k].isCorrect = grade.isCorrect
              /\ userAnswers[k].pointsAwarded = grade.pointsAwarded
              /\ (questions[r.questionId].questionType = "multiple_choice"
                    /\ r.payload.selectedOptionId # Null)
                 => userAnswers[k].isCorrect =
                      Some(Val(r.payload.selectedOptionId) \in CorrectIdSet(r.questionId))
              /\ userAnswers[k].isCorrect # Some(TRUE) => userAnswers[k].pointsAwarded = 0
         /\ score.correctAnswers = Cardinality(othersCorrect)
                                     + (IF grade.isCorrect = Some(TRUE) THEN 1 ELSE 0)
         /\ score.incorrectAnswers = Cardinality(othersIncorrect)
                                       + (IF grade.isCorrect = Some(FALSE) THEN 1 ELSE 0)
         /\ score.totalPoints =
              SumOver(othersCorrect, [k \in othersCorrect |-> userAnswers[k].pointsAwarded])
                + (IF grade.isCorrect = Some(TRUE) THEN grade.pointsAwarded ELSE 0)
         /\ results.error = ""
         /\ \A x \in Val(results.attempt).answers :
              x.answer.questionId = r.questionId
              => /\ x.answer.selectedOptionId = r.payload.selectedOptionId
                 /\ x.answer.selectedOptionIds = r.payload.selectedOptionIds
                 /\ x.answer.textAnswer = r.payload.textAnswer
                 /\ x.answer.isCorrect = grade.isCorrect
                 /\ x.answer.pointsAwarded = grade.pointsAwarded

\* a correct answer has been replaced by an incorrect one
C6_Witness ==
  \E i \in DOMAIN reqs :
    /\ Resubmitted(i)
    /\ Val(reqs[i].existingAnswer).row.isCorrect = Some(TRUE)
    /\ Val(reqs[i].ret).isCorrect = Some(FALSE)

\* C9: a correct objective answer in an attempt on exam E is awarded the point
\* value of the binding of its question to exam E; an incorrect one is awarded 0.
C9_PointsOfOwnExam ==
  \A i \in DOMAIN reqs :
    (Served(i, "submitAnswer") /\ reqs[i].result = "ok" /\ Val(reqs[i].ret).isCorrect # Null)
    => \A eq \in examQuestions :
         (eq.examId = examAttempts[reqs[i].attemptId].examId
            /\ eq.questionId = reqs[i].questionId)
         => Val(reqs[i].ret).pointsAwarded =
              (IF Val(reqs[i].ret).isCorrect = Some(TRUE) THEN eq.points ELSE 0)

ShapeMatches(questionType, payload) ==
  IF questionType \in {"multiple_choice", "true_false"}
  THEN payload.selectedOptionId # Null /\ payload.selectedOptionIds = Null /\ payload.textAnswer = Null
  ELSE IF questionType = "multiple_answer"
  THEN payload.selectedOptionId = Null /\ payload.selectedOptionIds # Null /\ payload.textAnswer = Null
  ELSE payload.selectedOptionId = Null /\ payload.selectedOptionIds = Null /\ payload.textAnswer # Null

\* C17: a submitAnswer of the attempt's owner whose payload shape does not fit
\* the type of the question is rejected and leaves no answer row holding it.
C17_ShapeChecked ==
  \A i \in DOMAIN reqs :
    (Served(i, "submitAnswer") /\ ownershipError(reqs[i]) = ""
       /\ ~ShapeMatches(questions[reqs[i].questionId].questionType, reqs[i].payload))
    => /\ reqs[i].result # "ok"
       /\ \A k \in answerRows(reqs[i].attemptId, reqs[i].questionId) :
            \/ userAnswers[k].selectedOptionId # reqs[i].payload.selectedOptionId
            \/ userAnswers[k].textAnswer # reqs[i].payload.textAnswer

\* C18: submitAnswer fails with 'Attempt not found' when the attempt does not
\* exist, with the not-in-progress error when the owner's attempt is not
\* in_progress, and with the not-part-of-exam error when the question is not
\* bound to the exam of the owner's in_progress attempt; in each case the
\* user_answers rows and the questions counters are what they were before.
C18_FailuresLeaveNoTrace ==
  \A i \in DOMAIN reqs :
    Served(i, "submitAnswer")
    => LET r == reqs[i]
           attempt == attemptRow(r.attemptId)
           owned == attempt # Null /\ Val(attempt).userId = r.userId
           untouched == userAnswers = r.answersBefore /\ questions = r.questionsBefore
       IN /\ attempt = Null => (r.result = "Attempt not found" /\ untouched)
          /\ (owned /\ Val(attempt).status # "in_progress")
               => /\ r.result = "Cannot submit answer for completed or abandoned attempt"
                  /\ untouched
          /\ (owned /\ Val(attempt).status = "in_progress"
                 /\ \A eq \in examQuestions :
                      ~(eq.examId = Val(attempt).examId /\ eq.questionId = r.questionId))
               => (r.result = "Question not part of this exam" /\ untouched)
          /\ r.result # "ok" => untouched

\* an answer for a question of another exam was refused on an attempt that
\* already has an answer
C18_Witness ==
  \E i \in DOMAIN reqs :
    /\ Served(i, "submitAnswer")
    /\ reqs[i].result = "Question not part of this exam"
    /\ \E eq \in examQuestions : eq.questionId = reqs[i].questionId
    /\ \E k \in DOMAIN userAnswers : userAnswers[k].attemptId = reqs[i].attemptId

\* C19: the attempt a successful startAttempt has just created is in_progress
\* with currentQuestionIndex 0, timeRemaining = duration * 60 (null without a
\* duration) and maxPoints = the sum of the points of the questions bound to
\* the exam.
C19_FreshAttempt ==
  \A i \in DOMAIN reqs :
    (Served(i, "startAttempt") /\ reqs[i].result = "ok")
    => LET attempt == examAttempts[Val(reqs[i].ret).attempt]
           exam == exams[reqs[i].examId]
           bound == {eq \in examQuestions : eq.examId = reqs[i].examId}
       IN /\ attempt.status = "in_progress"
          /\ attempt.currentQuestionIndex = 0
          /\ attempt.timeRemaining = (IF exam.duration = Null THEN Null
                                      ELSE Some(Val(exam.duration) * 60))
          /\ attempt.maxPoints = SumOver(bound, [eq \in bound |-> eq.points])

\* C10: the percentage calculateScore computes for an attempt lies in 0..100
\* when maxPoints > 0 and is 0 when maxPoints = 0 (percentages in hundredths).
C10_PercentageInRange ==
  \A a \in DOMAIN examAttempts :
    LET score == calculateScore(a)
    IN /\ score.maxPoints > 0 => (0 <= score.percentage /\ score.percentage <= 100 * 100)
       /\ score.maxPoints = 0 => score.percentage = 0

(***************************************************************************)
(* Properties of the results of an attempt                                 *)
(***************************************************************************)
\* the response of request i, a served getResults that did not fail
Results(i) == Val(reqs[i].ret)

GotResults(i) == Served(i, "getResults") /\ reqs[i].result = "ok"

\* C13: under the policy 'never' the response of getAttemptResults carries no
\* option row, hence no isCorrect flag of an option: neither in the questions
\* list nor as the selected option of an answer.
C13_NeverHidesCorrectness ==
  \A i \in DOMAIN reqs :
    (GotResults(i) /\ Val(Results(i).attempt).exam.showAnswersAfter = "never")
    => /\ \A q \in Results(i).questions : q.options = {}
       /\ \A x \in Val(Results(i).attempt).answers : x.selectedOption = {}

\* the policy and the status say the answers are to be revealed
MayReveal(i) ==
  LET exam == Val(Results(i).attempt).exam
      attempt == Val(Results(i).attempt).attempt
  IN \/ exam.showAnswersAfter = "immediately"
     \/ (exam.showAnswersAfter = "after_submit" /\ attempt.status = "completed")

\* questions bound to the exam of the attempt of request i
BoundQuestionIds(i) ==
  {eq.questionId : eq \in {x \in examQuestions :
                             x.examId = Val(Results(i).attempt).attempt.examId}}

\* C14 as stated: showAnswers is true and the questions list is non-empty
\* exactly when the policy is 'immediately', or 'after_submit' with a completed
\* attempt; when showAnswers is false the questions list is empty.
C14_RevealsExactlyWhenAllowed ==
  \A i \in DOMAIN reqs :
    GotResults(i)
    => /\ (Results(i).showAnswers /\ Results(i).questions # {}) <=> MayReveal(i)
       /\ ~Results(i).showAnswers => Results(i).questions = {}

\* C14 amended: showAnswers is true exactly when the policy is 'immediately',
\* or 'after_submit' with a completed attempt; the questions list then has one
\* entry, with all its options, per question bound to the exam (none when no
\* question is bound any more), and is empty when showAnswers is false.
C14_RevealsBoundQuestions ==
  \A i \in DOMAIN reqs :
    GotResults(i)
    => /\ Results(i).showAnswers <=> MayReveal(i)
       /\ Results(i).showAnswers
            => /\ {q.questionId : q \in Results(i).questions} = BoundQuestionIds(i)
               /\ \A q \in Results(i).questions :
                    q.options = {o \in questionOptions : o.questionId = q.questionId}
       /\ ~Results(i).showAnswers => Results(i).questions = {}

\* results of a completed attempt under 'after_submit', with the options shown
C14_Witness ==
  \E i \in DOMAIN reqs :
    /\ GotResults(i)
    /\ Val(Results(i).attempt).exam.showAnswersAfter = "after_submit"
    /\ Val(Results(i).attempt).attempt.status = "completed"
    /\ Results(i).showAnswers
    /\ \E q \in Results(i).questions : q.options # {}

\* C15: getAttemptResults for a user who does not own the attempt fails with
\* the not-owner error and returns nothing; for a missing attempt it fails with
\* 'Attempt not found'.
C15_ResultsOnlyForOwner ==
  \A i \in DOMAIN reqs :
    Served(i, "getResults")
    => LET attempt == attemptRow(reqs[i].attemptId)
       IN /\ attempt = Null
               => reqs[i].result = "Attempt not found" /\ reqs[i].ret = Null
          /\ (attempt # Null /\ Val(attempt).userId # reqs[i].userId)
               => /\ reqs[i].result = "Unauthorized to view this attempt"
                  /\ reqs[i].ret = Null
          /\ reqs[i].ret # Null => Val(Results(i).attempt).attempt.userId = reqs[i].userId

\* the other user asked for the results of an attempt that has an answer
C15_Witness ==
  \E i \in DOMAIN reqs :
    /\ Served(i, "getResults")
    /\ reqs[i].attemptId \in DOMAIN examAttempts
    /\ examAttempts[reqs[i].attemptId].userId # reqs[i].userId
    /\ \E k \in DOMAIN userAnswers : userAnswers[k].attemptId = reqs[i].attemptId
    /\ reqs[i].result = "Unauthorized to view this attempt"

(***************************************************************************)
(* Properties of the question review workflow                              *)
(***************************************************************************)
ReviewEdges ==
  {<<"draft", "pending_review">>, <<"rejected", "pending_review">>,
   <<"pending_review", "approved">>, <<"pending_review", "rejected">>}

\* C20: a question's review status changes only along draft -> pending_review,
\* rejected -> pending_review, pending_review -> approved and pending_review ->
\* rejected; in particular the status of an approved question never changes.
C20_ReviewStatusEdges ==
  [][\A q \in QuestionIds :
       questions'[q].status # questions[q].status
       => <<questions[q].status, questions'[q].status>> \in ReviewEdges]_vars

(***************************************************************************)
(* Properties of the answer path under overlapping requests                *)
(***************************************************************************)
\* C21: no submitAnswer request ends with the uniqueness-constraint failure of
\* its INSERT: overlapping submissions for one (attemptId, questionId) both
\* complete successfully.
C21_UpsertNeverFails ==
  \A i \in DOMAIN reqs :
    Served(i, "submitAnswer") => reqs[i].result # DuplicateKeyError

\* the counters of question q
Counters(qs, q) ==
  <<qs[q].usageCount, qs[q].totalAnswerCount, qs[q].correctAnswerCount>>

\* C22: the step that completes a successful auto-graded submitAnswer on a
\* question raises its usageCount and totalAnswerCount by exactly one and its
\* correctAnswerCount by one exactly when the answer was graded correct,
\* whatever other requests ran since the request arrived; no other step
\* changes the counters.
C22_NoLostIncrement ==
  [][\A q \in QuestionIds :
       LET finishing == {i \in DOMAIN reqs :
                           /\ nreqs' = nreqs
                           /\ reqs[i].kind = "submitAnswer" /\ reqs[i].questionId = q
                           /\ reqs[i].pc # "done" /\ reqs'[i].pc = "done"
                           /\ reqs'[i].result = "ok"
                           /\ Val(reqs'[i].ret).isCorrect # Null}
       IN IF finishing = {}
          THEN Counters(questions', q) = Counters(questions, q)
          ELSE \A i \in finishing :
                 Counters(questions', q) =
                   <<questions[q].usageCount + 1, questions[q].totalAnswerCount + 1,
                     questions[q].correctAnswerCount
                       + (IF Val(reqs'[i].ret).isCorrect = Some(TRUE) THEN 1 ELSE 0)>>]_vars

\* a graded submission finished after another one on the same question had
\* been counted since the first arrived
C22_Witness ==
  \E i \in DOMAIN reqs :
    /\ Served(i, "submitAnswer") /\ reqs[i].result = "ok"
    /\ Val(reqs[i].ret).isCorrect # Null
    /\ questions[reqs[i].questionId].usageCount
         >= reqs[i].questionsBefore[reqs[i].questionId].usageCount + 2

(***************************************************************************)
(* Grading of one question of any type, from the request to the totals:    *)
(* the question's type and options are drawn as createQuestion accepts     *)
(* them, the candidate starts an attempt, answers with any body the        *)
(* request schema accepts and submits the exam.                            *)
(***************************************************************************)
ManualOptionIds == {1, 2}

\* one body of each shape submitAnswerSchema accepts
ManualPayloads ==
  singleChoicePayloads(ManualOptionIds \cup {0}) \cup
  multipleAnswerPayloads({<<1>>, <<1, 2>>, <<2, 1>>}) \cup textPayloads

InitManual ==
  /\ \E type \in QuestionTypes, ids \in SUBSET ManualOptionIds :
       \E correct \in SUBSET ids :
         /\ validOptions(type, ids, correct)
         /\ questions = [q \in QuestionIds |->
                           IF q = 1 THEN Question(type, 1) ELSE Question("essay", 1)]
         /\ questionOptions = {Option(i, 1, i \in correct) : i \in ids}
  /\ examQuestions = {ExamQuestion(1, 1, 1)}
  /\ exams = createdExams
  /\ examAttempts = <<>>
  /\ userAnswers = <<>>
  /\ reqs = <<>>
  /\ nreqs = 0
  /\ graded = NotGraded
  /\ clients = NoClients
  /\ rooms = NoRooms

NextManual ==
  \/ CanArriveSeq /\ BeginStartAttempt(ConcUsers, ResultsExamIds)
  \/ CanArriveSeq /\ BeginSubmitAnswer(ConcUsers, ConcQuestionIds, ManualPayloads)
  \/ CanArriveSeq /\ BeginSubmitExam(ConcUsers)
  \/ \E i \in DOMAIN reqs : startAttempt_exam(i)
  \/ \E i \in DOMAIN reqs : startAttempt_countQuestions(i)
  \/ \E i \in DOMAIN reqs : startAttempt_countAttempts(i)
  \/ \E i \in DOMAIN reqs : startAttempt_insert(i)
  \/ \E i \in DOMAIN reqs : startAttempt_questions(i)
  \/ \E i \in DOMAIN reqs : submitAnswer_ctl(i)
  \/ \E i \in DOMAIN reqs : submitAnswer_attempt(i)
  \/ \E i \in DOMAIN reqs : submitAnswer_question(i)
  \/ \E i \in DOMAIN reqs : submitAnswer_existing(i)
  \/ \E i \in DOMAIN reqs : submitAnswer_save(i)
  \/ \E i \in DOMAIN reqs : submitAnswer_stats(i)
  \/ \E i \in DOMAIN reqs : submitExam_ctl(i)
  \/ \E i \in DOMAIN reqs : submitExam_attempt(i)
  \/ \E i \in DOMAIN reqs : submitExam_score(i)
  \/ \E i \in DOMAIN reqs : submitExam_update(i)

SpecManual == InitManual /\ [][NextManual]_vars

ManualTypes == {"essay", "fill_blank"}

\* the answers of attempt a to questions graded by hand
ManualAnswers(a) ==
  {k \in DOMAIN userAnswers :
     /\ userAnswers[k].attemptId = a
     /\ questions[userAnswers[k].questionId].questionType \in ManualTypes}

\* C24: an answer to an essay or fill_blank question is graded isCorrect =
\* null, pointsAwarded = 0, needsManualGrading = true whatever its payload, is
\* stored so, and the score aggregator counts it as needsGrading, not as
\* correct or incorrect.
C24_ManualGrading ==
  /\ \A i \in DOMAIN reqs :
       (/\ Served(i, "submitAnswer") /\ reqs[i].result = "ok"
        /\ questions[reqs[i].questionId].questionType \in ManualTypes)
       => reqs[i].ret = Some([isCorrect |-> Null, pointsAwarded |-> 0,
                              needsManualGrading |-> TRUE])
  /\ \A a \in DOMAIN examAttempts :
       LET answers == {k \in DOMAIN userAnswers : userAnswers[k].attemptId = a}
           score == calculateScore(a)
       IN /\ \A k \in ManualAnswers(a) :
               userAnswers[k].isCorrect = Null /\ userAnswers[k].pointsAwarded = 0
          /\ score.needsGrading >= Cardinality(ManualAnswers(a))
          /\ score.correctAnswers + score.incorrectAnswers
               <= Cardinality(answers) - Cardinality(ManualAnswers(a))

\* a fill_blank question answered with a list of option ids, exam submitted
C24_Witness ==
  \E i \in DOMAIN reqs, k \in DOMAIN userAnswers :
    /\ Served(i, "submitExam") /\ reqs[i].result = "ok"
    /\ userAnswers[k].attemptId = reqs[i].attemptId
    /\ questions[userAnswers[k].questionId].questionType = "fill_blank"
    /\ userAnswers[k].selectedOptionIds # Null
    /\ calculateScore(reqs[i].attemptId).needsGrading = 1

(***************************************************************************)
(* Properties of the auto-grader's result                                  *)
(***************************************************************************)
\* C26: for a fixed question, correct-option set and submitted answer, every
\* grading call returns the same isCorrect and pointsAwarded: the result
\* recorded equals the result for every row the points query can return,
\* whatever other exams the question is bound to.
C26_GradingDeterministic ==
  graded.done =>
    \A examQuestion \in examQuestionLimit1(graded.questionId) :
      LET out == autoGradeAnswer(graded.questionType, graded.questionId,
                                 graded.payload.selectedOptionId,
                                 graded.payload.selectedOptionIds,
                                 graded.payload.textAnswer, examQuestion)
      IN /\ out.isCorrect = graded.out.isCorrect
         /\ out.pointsAwarded = graded.out.pointsAwarded

(***************************************************************************)
(* Properties of the totals submitExam computes and stores                 *)
(***************************************************************************)
\* number of answers of attempt a whose isCorrect is v
AnswersGraded(a, v) ==
  Cardinality({k \in DOMAIN userAnswers :
                 userAnswers[k].attemptId = a /\ userAnswers[k].isCorrect = v})

\* points of the first n answer rows that belong to attempt a and are correct
RECURSIVE AwardedUpTo(_, _)
AwardedUpTo(a, n) ==
  IF n = 0 THEN 0
  ELSE AwardedUpTo(a, n - 1)
         + (IF userAnswers[n].attemptId = a /\ userAnswers[n].isCorrect = Some(TRUE)
            THEN userAnswers[n].pointsAwarded ELSE 0)

\* C25: the totals submitExam returns are totalQuestions = number of bindings
\* of the attempt's exam, maxPoints = sum of their points, correctAnswers /
\* incorrectAnswers / needsGrading = number of the attempt's answers with
\* isCorrect true / false / null, totalPoints = points awarded over the
\* correct answers, unansweredQuestions = totalQuestions minus the number of
\* answers.
C25_AggregatorTotals ==
  \A i \in DOMAIN reqs :
    (Served(i, "submitExam") /\ reqs[i].result = "ok")
    => LET a == reqs[i].attemptId
           score == Val(reqs[i].ret).score
           bindings == {eq \in examQuestions : eq.examId = examAttempts[a].examId}
       IN /\ score.totalQuestions = Cardinality(bindings)
          /\ score.maxPoints = SumOver(bindings, [eq \in bindings |-> eq.points])
          /\ score.correctAnswers = AnswersGraded(a, Some(TRUE))
          /\ score.incorrectAnswers = AnswersGraded(a, Some(FALSE))
          /\ score.needsGrading = AnswersGraded(a, Null)
          /\ score.totalPoints = AwardedUpTo(a, Len(userAnswers))
          /\ score.unansweredQuestions =
               Cardinality(bindings) - Cardinality(answerRows(a, 1) \cup answerRows(a, 2))

\* an exam submitted with one correct answer and one answer awaiting a grade
C25_Witness ==
  \E i \in DOMAIN reqs :
    /\ Served(i, "submitExam") /\ reqs[i].result = "ok"
    /\ Val(reqs[i].ret).score.correctAnswers = 1
    /\ Val(reqs[i].ret).score.needsGrading = 1
    /\ Val(reqs[i].ret).score.totalQuestions = 2

\* C29: the totals submitExam stores on the attempt row are in range:
\* unansweredQuestions >= 0, correct + incorrect + unanswered <= number of
\* questions bound to the exam, 0 <= totalPoints <= maxPoints of the row, also
\* when questions were added or removed between startAttempt and submitExam.
C29_PersistedTotalsInRange ==
  \A i \in DOMAIN reqs :
    (Served(i, "submitExam") /\ reqs[i].result = "ok")
    => LET row == examAttempts[reqs[i].attemptId]
           bound == Cardinality({eq \in examQuestions : eq.examId = row.examId})
       IN /\ row.unansweredQuestions >= 0
          /\ row.correctAnswers + row.incorrectAnswers + row.unansweredQuestions <= bound
          /\ 0 <= row.totalPoints /\ row.totalPoints <= row.maxPoints

CanArriveLimit == nreqs < MaxLimitReqs /\ InFlight = {}

NextLimit ==
  \/ CanArriveLimit /\ BeginStartAttempt(Candidates, ResultsExamIds)
  \/ CanArriveLimit /\ BeginSubmitAnswer(Candidates, ConcQuestionIds, ConcPayloads)
  \/ CanArriveLimit /\ BeginSubmitExam(Candidates)
  \/ \E i \in DOMAIN reqs : startAttempt_exam(i)
  \/ \E i \in DOMAIN reqs : startAttempt_countQuestions(i)
  \/ \E i \in DOMAIN reqs : startAttempt_countAttempts(i)
  \/ \E i \in DOMAIN reqs : startAttempt_insert(i)
  \/ \E i \in DOMAIN reqs : startAttempt_questions(i)
  \/ \E i \in DOMAIN reqs : submitAnswer_ctl(i)
  \/ \E i \in DOMAIN reqs : submitAnswer_attempt(i)
  \/ \E i \in DOMAIN reqs : submitAnswer_question(i)
  \/ \E i \in DOMAIN reqs : submitAnswer_existing(i)
  \/ \E i \in DOMAIN reqs : submitAnswer_save(i)
  \/ \E i \in DOMAIN reqs : submitAnswer_stats(i)
  \/ \E i \in DOMAIN reqs : submitExam_ctl(i)
  \/ \E i \in DOMAIN reqs : submitExam_attempt(i)
  \/ \E i \in DOMAIN reqs : submitExam_score(i)
  \/ \E i \in DOMAIN reqs : submitExam_update(i)

SpecLimit == Init /\ [][NextLimit]_vars

\* C28: for every exam with attemptsAllowed = N and every user, the number of
\* the user's completed attempts on the exam never exceeds N.
C28_CompletedWithinLimit ==
  \A userId \in Users, examId \in ExamIds :
    exams[examId].attemptsAllowed # Null
    => Cardinality(CompletedAttempts(userId, examId)) <= Val(exams[examId].attemptsAllowed)

(***************************************************************************)
(* Starting attempts while exams are edited: exam 1 is published with      *)
(* question 1 bound and allows one attempt, exam 2 is a draft (created,    *)
(* not published, no question bound), exam id 3 has no row.  An            *)
(* administrator binds and unbinds question 1, publishes and deletes       *)
(* exams; the candidate starts, answers and submits.                       *)
(***************************************************************************)
\* ExamService.deleteExam: the soft delete
deleteExam(id) ==
  /\ exams' = [exams EXCEPT ![id].deletedAt = Some("now")]
  /\ Forget
  /\ UNCHANGED <<questions, questionOptions, examQuestions, examAttempts, userAnswers, graded, wsVars>>

\* ExamService.publishExam: refused for an exam without questions
publishExam(id) ==
  /\ IF {eq \in examQuestions : eq.examId = id} = {}
     THEN UNCHANGED exams
     ELSE exams' = [exams EXCEPT ![id].isPublished = TRUE]
  /\ Forget
  /\ UNCHANGED <<questions, questionOptions, examQuestions, examAttempts, userAnswers, graded, wsVars>>

\* the exam ids a start request may name
StartExamIds == ExamIds \cup {3}

InitStart ==
  /\ exams = [createdExams EXCEPT ![2].isPublished = FALSE]
  /\ questions = [q \in QuestionIds |->
                    IF q = 1 THEN Question("multiple_choice", 1) ELSE Question("essay", 1)]
  /\ questionOptions = {Option(1, 1, TRUE), Option(2, 1, FALSE)}
  /\ examQuestions = {ExamQuestion(1, 1, 1)}
  /\ examAttempts = <<>>
  /\ userAnswers = <<>>
  /\ reqs = <<>>
  /\ nreqs = 0
  /\ graded = NotGraded
  /\ clients = NoClients
  /\ rooms = NoRooms

NextStart ==
  \/ CanArriveLimit /\ BeginStartAttempt(Candidates, StartExamIds)
  \/ CanArriveLimit /\ BeginSubmitAnswer(Candidates, ConcQuestionIds, ConcPayloads)
  \/ CanArriveLimit /\ BeginSubmitExam(Candidates)
  \/ CanArriveLimit /\ \E examId \in ExamIds, q \in ConcQuestionIds : addQuestionsToExam(examId, {q})
  \/ CanArriveLimit /\ \E examId \in ExamIds, q \in ConcQuestionIds : removeQuestionFromExam(examId, q)
  \/ CanArriveLimit /\ \E examId \in ExamIds : publishExam(examId)
  \/ CanArriveLimit /\ \E examId \in ExamIds : deleteExam(examId)
  \/ \E i \in DOMAIN reqs : startAttempt_exam(i)
  \/ \E i \in DOMAIN reqs : startAttempt_countQuestions(i)
  \/ \E i \in DOMAIN reqs : startAttempt_countAttempts(i)
  \/ \E i \in DOMAIN reqs : startAttempt_insert(i)
  \/ \E i \in DOMAIN reqs : startAttempt_questions(i)
  \/ \E i \in DOMAIN reqs : submitAnswer_ctl(i)
  \/ \E i \in DOMAIN reqs : submitAnswer_attempt(i)
  \/ \E i \in DOMAIN reqs : submitAnswer_question(i)
  \/ \E i \in DOMAIN reqs : submitAnswer_existing(i)
  \/ \E i \in DOMAIN reqs : submitAnswer_save(i)
  \/ \E i \in DOMAIN reqs : submitAnswer_stats(i)
  \/ \E i \in DOMAIN reqs : submitExam_ctl(i)
  \/ \E i \in DOMAIN reqs : submitExam_attempt(i)
  \/ \E i \in DOMAIN reqs : submitExam_score(i)
  \/ \E i \in DOMAIN reqs : submitExam_update(i)

SpecStart == InitStart /\ [][NextStart]_vars

\* what the first failing precondition of startAttempt(examId, userId) is
FirstFailure(examId, userId) ==
  IF examId \notin DOMAIN exams \/ exams[examId].deletedAt # Null THEN "Exam not found"
  ELSE IF ~exams[examId].isPublished THEN "Exam is not published yet"
  ELSE IF {eq \in examQuestions : eq.examId = examId} = {} THEN "Exam has no questions"
  ELSE IF /\ exams[examId].attemptsAllowed # Null
          /\ Cardinality(CompletedAttempts(userId, examId))
               >= Val(exams[examId].attemptsAllowed)
  THEN LimitMessage
  ELSE "ok"

\* C23: startAttempt reports the first precondition that fails in the order
\* exam missing or soft-deleted, exam not published, exam without a bound
\* question, attempt limit reached; when one fails no exam_attempts row is
\* created, and when none fails one row is.
C23_FirstFailureReported ==
  \A i \in DOMAIN reqs :
    Served(i, "startAttempt")
    => /\ reqs[i].result = FirstFailure(reqs[i].examId, reqs[i].userId)
       /\ Len(examAttempts) = reqs[i].attemptsBefore + (IF reqs[i].result = "ok" THEN 1 ELSE 0)

\* a start refused for the missing questions on an exam whose attempt limit
\* the candidate has also used up
C23_Witness ==
  \E i \in DOMAIN reqs :
    /\ Served(i, "startAttempt")
    /\ reqs[i].result = "Exam has no questions"
    /\ Cardinality(CompletedAttempts(reqs[i].userId, reqs[i].examId)) >= 1

(***************************************************************************)
(* The WebSocket endpoint: connections open, join and leave rooms, close.  *)
(***************************************************************************)
NextWs ==
  \/ onOpen
  \/ onMessage_joinRoom
  \/ onMessage_leaveRoom
  \/ onClose

SpecWs == Init /\ [][NextWs]_vars

\* C30: room membership is consistent: a client id is in a room's member set
\* exactly when the client is connected and its recorded roomId is that room,
\* each client is in at most one room, no room has an empty member set, and a
\* client that is not connected is in no room.
C30_RoomsConsistent ==
  /\ \A r \in RoomIds, c \in ClientIds :
       (r \in DOMAIN rooms /\ c \in rooms[r])
       <=> (c \in DOMAIN clients /\ clients[c].roomId = Some(r))
  /\ \A c \in ClientIds : Cardinality({r \in DOMAIN rooms : c \in rooms[r]}) <= 1
  /\ \A r \in DOMAIN rooms : rooms[r] # {}
  /\ \A c \in ClientIds \ DOMAIN clients : ~Listed(c)

====
